---- MODULE Spec2Model ----
(***************************************************************************)
(* Model of the LinkedIn profile scraper's fetch engine                    *)
(* (src/linkedin_scraper/src/scraper/fetch_profile.py): the RateLimiter,   *)
(* the block classifier _is_blocked, and the retry loops of                *)
(* SeleniumFetcher.fetch and PlaywrightFetcher.fetch; and of its login     *)
(* handlers (src/linkedin_scraper/src/scraper/login.py): SessionManager    *)
(* and login() of SeleniumLoginHandler and PlaywrightLoginHandler.         *)
(*                                                                         *)
(* Time is counted in ticks; one second is TicksPerSecond ticks, chosen so *)
(* that every delay the RateLimiter computes is a whole number of ticks.   *)
(* Page content is a sequence of tokens; a substring test of the code is a *)
(* test for a contiguous run of tokens.                                    *)
(***************************************************************************)
EXTENDS Integers, Sequences, FiniteSets, TLC

VARIABLES
    config,             \* ScraperConfig: use_playwright and the rate_limit fields
    now,                \* time.time(), in ticks
    last_request_time,  \* RateLimiter.last_request_time, in ticks
    rl_call,            \* the last RateLimiter call: its inputs and what it did
    driver,             \* SeleniumFetcher.driver / PlaywrightFetcher.browser is set
    pc,                 \* where the current fetch() call is
    retry,              \* the loop variable of fetch()
    result,             \* the FetchResult the last fetch() returned
    events,             \* what the current fetch() call did, in order
    calls,              \* fetch() calls made so far
    html,               \* the content handed to _is_blocked
    verdict,            \* what _is_blocked and _extract_json_ld said of html
    auth,               \* AuthConfig: enabled, and email and password are set
    store,              \* the session file of the identity SessionManager keeps
    lpc,                \* where the current login() call is
    lresult,            \* the LoginResult the last login() returned
    ltrace,             \* what the current login() call did, in order
    lcalls,             \* login() calls made so far
    use_saved_session,  \* the argument of the current login() call
    jar,                \* the cookies the driver was last given or last reported
    threads,            \* the threads inside fetch() on one fetcher
    files,              \* the session files of SessionManager, by file name
    slog,               \* the SessionManager operations made so far, in order
    request,            \* the JSON body of the request to /scrape
    urls,               \* scrape(): the cleaned list of URLs
    bpc,                \* where scrape() is
    url_index,          \* scrape(): the loop variable i
    fetch_result,       \* scrape(): what fetcher.fetch(url) returned
    profiles,           \* scrape(): the profiles collected
    errors,             \* scrape(): the per-URL errors collected
    response,           \* what scrape() answered
    btrace,             \* what scrape() did, in order
    doc,                \* the content handed to parse_html, as BeautifulSoup reads it
    parsed,             \* what parse_html returned or raised
    pair,               \* the two fetchers run side by side on the same driver outcomes
    life                \* one fetcher object: the handles it holds, the browsers alive

loginVars == <<auth, store, lpc, lresult, ltrace, lcalls, use_saved_session, jar>>

storeVars == <<files, slog>>

\* the variables of the session store, the parser and the batch
batchVars == <<request, urls, bpc, url_index, fetch_result, profiles, errors, response,
               btrace>>
parserVars == <<doc, parsed>>
moreVars == <<pair, life>>
sideVars == <<storeVars, batchVars, parserVars, moreVars>>

coreVars == <<config, now, last_request_time, rl_call, driver, pc, retry, result,
              events, calls, html, verdict>>

vars == <<coreVars, loginVars, threads, sideVars>>

(***************************************************************************)
(* Bounds of the model.                                                    *)
(***************************************************************************)
MaxRetries == 2          \* max_retries ranges over 0..MaxRetries
MaxAttemptIndex == 3     \* backoff(retry_count) is called with 1..MaxAttemptIndex
MaxDelaySeconds == 2     \* request_delay ranges over 0..MaxDelaySeconds seconds
MaxFactor == 2           \* retry_backoff_factor ranges over 0..MaxFactor
JitterDen == 2           \* retry_jitter ranges over the multiples of 1/JitterDen
RandDen == 4             \* random.random() ranges over the multiples of 1/RandDen in [0, 1)
MaxCalls == 2            \* fetch() calls in one run
MaxIdle == 2             \* the clock of the limiter runs MaxIdle periods past the start
MaxFrags == 2            \* fragments in a page
StartTime == 1000        \* time.time() at construction, in seconds
MaxLogins == 2           \* login() calls in one run
MaxThreads == 2          \* threads that call fetch() on one fetcher
MaxStoreOps == 3         \* SessionManager operations in one run
MaxUrls == 2             \* strings in the urls list of one request
MaxWorks == 2            \* entries of the worksFor array of a Person record
MaxItems == 2            \* .experience-item elements of a page

TicksPerSecond == JitterDen * RandDen

Max(a, b) == IF a >= b THEN a ELSE b
Min(a, b) == IF a <= b THEN a ELSE b

RECURSIVE Pow(_, _)
Pow(b, e) == IF e = 0 THEN 1 ELSE b * Pow(b, e - 1)

(***************************************************************************)
(* RateLimitConfig and its validation.                                     *)
(***************************************************************************)
RateLimitCandidates ==
    [request_delay        : {s * TicksPerSecond : s \in 0..MaxDelaySeconds},
     max_retries          : {-1, 0},
     retry_backoff_factor : 0..MaxFactor,
     retry_jitter         : 0..(JitterDen + 1),
     max_retry_delay      : {s * TicksPerSecond : s \in {0, 1, 3, 60}}]

\* RateLimitConfig.__post_init__: the configurations that do not raise ValueError
ValidRateLimit(c) ==
    /\ ~(c.request_delay < 0)
    /\ ~(c.max_retries < 0)
    /\ ~(c.retry_backoff_factor < 1)
    /\ (0 <= c.retry_jitter /\ c.retry_jitter <= JitterDen)
    /\ ~(c.max_retry_delay <= 0)

(***************************************************************************)
(* RateLimiter.                                                            *)
(***************************************************************************)
NoCall == [op |-> "none"]

\* a wait that sleeps the whole delay whenever it sleeps
SleepTimeWhole(elapsed, delay) ==
    IF elapsed < delay THEN delay ELSE 0

\* a wait that never sleeps
SleepTimeNone(elapsed, delay) ==
    IF elapsed < delay THEN 0 ELSE 0

\* RateLimiter.wait: the time.sleep argument (0: no sleep)
SleepTime(elapsed, delay) ==
    IF elapsed < delay THEN delay - elapsed ELSE 0

\* a backoff that leaves out the cap at max_retry_delay
BackoffUncapped(c, retry_count, r) ==
    LET base_delay == c.request_delay
        delay      == base_delay * Pow(c.retry_backoff_factor, retry_count)
        jitter     == (delay * c.retry_jitter * (2 * r - RandDen)) \div (JitterDen * RandDen)
    IN  delay + jitter

\* RateLimiter.backoff, r/RandDen being the value random.random() returns
Backoff(c, retry_count, r) ==
    LET base_delay == c.request_delay
        delay      == base_delay * Pow(c.retry_backoff_factor, retry_count)
        jitter     == (delay * c.retry_jitter * (2 * r - RandDen)) \div (JitterDen * RandDen)
    IN  Min(delay + jitter, c.max_retry_delay)

(***************************************************************************)
(* Page content. A page is a sequence of tokens. The tokens "@type",       *)
(* "@graph", "Person", "person" and "Organization" stand for the JSON      *)
(* strings of that text with their double quotes; "SP" is white space.     *)
(***************************************************************************)
ScriptOpen == <<"<script type=", "application/ld+json", ">">>
ScriptClose == "</script>"

FragPerson == ScriptOpen \o <<"{", "@type", ":", "Person", "}", ScriptClose>>
FragPersonSpaced == ScriptOpen \o <<"{", "@type", ":", "SP", "Person", "}", ScriptClose>>
FragGraphPerson ==
    ScriptOpen \o <<"{", "@graph", ":", "[", "{", "@type", ":", "Person", "}", "]", "}",
                    ScriptClose>>
FragOrganization == ScriptOpen \o <<"{", "@type", ":", "Organization", "}", ScriptClose>>
FragAllPhrases == <<"authwall-join", "public_profile_contextual-sign-in", "Join to view">>
FragAuthwall == <<"authwall-join">>
FragJoinUpper == <<"JOIN TO VIEW">>
FragHeading == <<"<h1>Jane Doe</h1>">>

Fragments ==
    {FragPerson, FragPersonSpaced, FragGraphPerson, FragOrganization, FragAllPhrases,
     FragAuthwall, FragJoinUpper, FragHeading}

RECURSIVE Flatten(_)
Flatten(fs) == IF fs = <<>> THEN <<>> ELSE Head(fs) \o Flatten(Tail(fs))

Pages == {Flatten(fs) : fs \in UNION {[1..n -> Fragments] : n \in 1..MaxFrags}}

\* str.lower on one token
Lower(t) ==
    CASE t = "Join to view" -> "join to view"
      [] t = "JOIN TO VIEW" -> "join to view"
      [] t = "Person"       -> "person"
      [] t = "Organization" -> "organization"
      [] t = "<h1>Jane Doe</h1>" -> "<h1>jane doe</h1>"
      [] t = "SP"           -> "SP"
      [] OTHER              -> t

LowerAll(h) == [i \in 1..Len(h) |-> Lower(h[i])]

\* needle in hay, for strings
Contains(hay, needle) ==
    \E i \in 1..(Len(hay) - Len(needle) + 1) :
        SubSeq(hay, i, i + Len(needle) - 1) = needle

\* the list blocked_indicators of _is_blocked
blocked_indicators == <<"authwall-join", "public_profile_contextual-sign-in", "Join to view">>

\* SeleniumFetcher._is_blocked and PlaywrightFetcher._is_blocked (the same text)
IsBlocked(h) ==
    IF Contains(h, <<"application/ld+json">>) /\ Contains(h, <<"@type", ":", "Person">>)
    THEN FALSE
    ELSE LET html_lower == LowerAll(h)
         IN  \E k \in 1..Len(blocked_indicators) :
                 Contains(html_lower, <<Lower(blocked_indicators[k])>>)

(***************************************************************************)
(* ProfileParser._extract_json_ld.                                         *)
(***************************************************************************)
\* the bodies of the <script type="application/ld+json"> elements, in document order
ScriptBodies(h) ==
    LET starts == {i \in 1..(Len(h) - Len(ScriptOpen) + 1) :
                      SubSeq(h, i, i + Len(ScriptOpen) - 1) = ScriptOpen}
        BodyAt(i) ==
            LET from == i + Len(ScriptOpen)
                ends == {j \in from..Len(h) : h[j] = ScriptClose}
                to   == IF ends = {} THEN Len(h) + 1
                        ELSE CHOOSE j \in ends : \A j2 \in ends : j <= j2
            IN  SubSeq(h, from, to - 1)
        RECURSIVE Collect(_)
        Collect(i) ==
            IF i > Len(h) THEN <<>>
            ELSE IF i \in starts THEN <<BodyAt(i)>> \o Collect(i + 1)
            ELSE Collect(i + 1)
    IN  Collect(1)

StripSpace(b) == SelectSeq(b, LAMBDA t : t # "SP")

\* json.loads on a script body: the document, or "error" for JSONDecodeError
JsonLoads(b) ==
    LET t == StripSpace(b)
    IN  IF Len(t) = 5 /\ t[1] = "{" /\ t[2] = "@type" /\ t[3] = ":" /\ t[5] = "}"
             /\ t[4] \in {"Person", "person", "Organization"}
        THEN [kind |-> "object", type |-> t[4], graph |-> <<>>]
        ELSE IF Len(t) = 11 /\ SubSeq(t, 1, 5) = <<"{", "@graph", ":", "[", "{">>
                /\ t[6] = "@type" /\ t[7] = ":" /\ SubSeq(t, 9, 11) = <<"}", "]", "}">>
                /\ t[8] \in {"Person", "person", "Organization"}
        THEN [kind |-> "graph", type |-> "none", graph |-> <<t[8]>>]
        ELSE [kind |-> "error", type |-> "none", graph |-> <<>>]

\* the Person found in one parsed document, if any
PersonIn(d) ==
    IF d.kind = "graph" THEN \E k \in 1..Len(d.graph) : d.graph[k] = "Person"
    ELSE d.kind = "object" /\ d.type = "Person"

\* ProfileParser._extract_json_ld returns a Person record (not None)
ExtractJsonLd(h) ==
    LET bodies == ScriptBodies(h)
    IN  \E k \in 1..Len(bodies) : PersonIn(JsonLoads(bodies[k]))

(***************************************************************************)
(* The classifier applied to every page of the bounded set.                *)
(***************************************************************************)
NoVerdict == [blocked |-> "unset", person |-> "unset"]
NoHtml == <<>>

\* no login handler and no session file
NoAuth == [enabled |-> FALSE, has_credentials |-> FALSE]
NoSession == [kind |-> "absent", cookies |-> <<>>]
NoLoginResult == [kind |-> "none"]

LoginIdle ==
    /\ auth = NoAuth /\ store = NoSession /\ lpc = "idle"
    /\ lresult = NoLoginResult /\ ltrace = <<>> /\ lcalls = 0
    /\ use_saved_session = FALSE
    /\ jar = <<>>

\* no thread has called fetch()
Threads == 1..MaxThreads
NoThread == [pc |-> "idle", wake |-> 0, loaded_at |-> 0]
ThreadsIdle == threads = [t \in Threads |-> NoThread]

\* no fetch() call yet
FetchIdle ==
    /\ driver = FALSE /\ pc = "idle" /\ retry = 0 /\ result = [kind |-> "none"]
    /\ events = <<>> /\ calls = 0

\* the two identities of the model, and get_session_file: the file name made of
\* the first 16 hex digits of the SHA-256 of the email
Emails == {"a@example.com", "b@example.com"}
KeyFor(email) ==
    CASE email = "a@example.com" -> "session_08168cd80dfd534a.json"
      [] email = "b@example.com" -> "session_e8f39b3e1382367d.json"
Keys == {KeyFor(e) : e \in Emails}

\* no session file, and no SessionManager operation yet
StoreIdle == files = [k \in Keys |-> NoSession] /\ slog = <<>>

\* no request to /scrape yet
NoRequest == [urls |-> <<>>]
NoResponse == [status |-> 0]
BatchIdle ==
    /\ request = NoRequest /\ urls = <<>> /\ bpc = "idle" /\ url_index = 0
    /\ fetch_result = [kind |-> "none"] /\ profiles = <<>> /\ errors = <<>>
    /\ response = NoResponse /\ btrace = <<>>

\* no call of parse_html yet
NoDoc == [kind |-> "none"]
NotParsed == [kind |-> "none"]
ParserIdle == doc = NoDoc /\ parsed = NotParsed

\* no side-by-side run yet
NoPair == [kind |-> "none"]
\* no fetcher object looked at yet
NoLife == [kind |-> "none"]
MoreIdle == pair = NoPair /\ life = NoLife

SideIdle == StoreIdle /\ BatchIdle /\ ParserIdle /\ MoreIdle

Idle ==
    /\ FetchIdle
    /\ LoginIdle
    /\ SideIdle
    /\ ThreadsIdle

\* a valid configuration; the classifier reads none of it
ClassifyConfig ==
    [use_playwright |-> FALSE, max_retries |-> 0,
     request_delay |-> TicksPerSecond, retry_backoff_factor |-> 2,
     retry_jitter |-> JitterDen, max_retry_delay |-> 3 * TicksPerSecond]

InitClassify ==
    /\ config = ClassifyConfig
    /\ now = StartTime * TicksPerSecond
    /\ last_request_time = 0
    /\ rl_call = NoCall
    /\ Idle
    /\ html \in Pages
    /\ verdict = NoVerdict

\* _is_blocked(html), and _extract_json_ld on the same content
Classify ==
    /\ verdict = NoVerdict
    /\ verdict' = [blocked |-> IF IsBlocked(html) THEN "Blocked" ELSE "Ok",
                   person  |-> IF ExtractJsonLd(html) THEN "Person" ELSE "None"]
    /\ UNCHANGED <<config, now, last_request_time, rl_call, driver, pc, retry, result,
                   events, calls, html, loginVars, threads, sideVars>>

NextClassify == Classify

SpecClassify == InitClassify /\ [][NextClassify]_vars

(***************************************************************************)
(* The RateLimiter alone, under every valid configuration of the bounded   *)
(* set.                                                                    *)
(***************************************************************************)
InitLimiter ==
    /\ \E c \in RateLimitCandidates :
          /\ ValidRateLimit(c)
          /\ config = [use_playwright |-> FALSE, max_retries |-> c.max_retries,
                       request_delay |-> c.request_delay,
                       retry_backoff_factor |-> c.retry_backoff_factor,
                       retry_jitter |-> c.retry_jitter,
                       max_retry_delay |-> c.max_retry_delay]
    /\ now = StartTime * TicksPerSecond
    /\ last_request_time = 0
    /\ rl_call = NoCall
    /\ Idle
    /\ html = NoHtml
    /\ verdict = NoVerdict

\* RateLimiter.wait(): sleeps, then records the time; the clock and the
\* limiter's field after the call, and the record of the call
WaitStep ==
    LET elapsed    == now - last_request_time
        delay      == config.request_delay
        sleep_time == SleepTime(elapsed, delay)
    IN  [now  |-> now + sleep_time,
         last |-> now + sleep_time,
         call |-> [op |-> "wait", at |-> now, last |-> last_request_time,
                   slept |-> sleep_time]]

\* a backoff that sleeps the delay it computes
BackoffStepSleeping(retry_count, r) ==
    [now  |-> now + Backoff(config, retry_count, r),
     last |-> last_request_time,
     call |-> [op |-> "backoff", retry_count |-> retry_count, r |-> r,
               delay |-> Backoff(config, retry_count, r)]]

\* RateLimiter.backoff(retry_count): returns the delay and changes nothing
BackoffStep(retry_count, r) ==
    [now  |-> now,
     last |-> last_request_time,
     call |-> [op |-> "backoff", retry_count |-> retry_count, r |-> r,
               delay |-> Backoff(config, retry_count, r)]]

Wait ==
    /\ now' = WaitStep.now
    /\ last_request_time' = WaitStep.last
    /\ rl_call' = WaitStep.call

BackoffCall(retry_count, r) ==
    /\ rl_call' = BackoffStep(retry_count, r).call
    /\ now' = BackoffStep(retry_count, r).now
    /\ last_request_time' = BackoffStep(retry_count, r).last

HalfSecond == TicksPerSecond \div 2

ClockRuns == now < (StartTime + MaxIdle) * TicksPerSecond

LimiterWait ==
    /\ ClockRuns
    /\ Wait
    /\ UNCHANGED <<config, driver, pc, retry, result, events, calls, html, verdict,
                   loginVars, threads, sideVars>>

LimiterBackoff ==
    /\ \E k \in 1..MaxAttemptIndex, r \in 0..(RandDen - 1) : BackoffCall(k, r)
    /\ UNCHANGED <<config, driver, pc, retry, result, events, calls, html, verdict,
                   loginVars, threads, sideVars>>

\* time passes between two calls
TimePasses ==
    /\ ClockRuns
    /\ now' = now + HalfSecond
    /\ UNCHANGED <<config, last_request_time, rl_call, driver, pc, retry, result,
                   events, calls, html, verdict, loginVars, threads, sideVars>>

NextLimiter == LimiterWait \/ LimiterBackoff \/ TimePasses

SpecLimiter == InitLimiter /\ [][NextLimiter]_vars

(***************************************************************************)
(* FetchResult and the results fetch() builds.                             *)
(***************************************************************************)
NoResult == [kind |-> "none"]

FetchResult(h, success, error, error_type, retry_count, is_blocked) ==
    [kind |-> "FetchResult", html |-> h, success |-> success, error |-> error,
     error_type |-> error_type, retry_count |-> retry_count, is_blocked |-> is_blocked]

\* a blocked result that leaves is_blocked at its default
BlockedResultUnflagged(k) ==
    FetchResult(NoHtml, FALSE, "Access blocked or login required", "blocked", k, FALSE)

BlockedResult(k) ==
    FetchResult(NoHtml, FALSE, "Access blocked or login required", "blocked", k, TRUE)
SuccessResult(h, k) == FetchResult(h, TRUE, "None", "None", k, FALSE)
TimeoutResult(k) == FetchResult(NoHtml, FALSE, "Timeout after max_retries retries", "timeout", k, FALSE)
WebDriverErrorResult(k) == FetchResult(NoHtml, FALSE, "WebDriver error", "network", k, FALSE)
UnexpectedErrorResult(k) == FetchResult(NoHtml, FALSE, "Unexpected error", "network", k, FALSE)
ErrorResult(k) == FetchResult(NoHtml, FALSE, "Error", "network", k, FALSE)
MaxRetriesExceededResult(k) == FetchResult(NoHtml, FALSE, "Max retries exceeded", "network", k, FALSE)

\* how one pass through the loop body ends
Continue(evs) == [exit |-> "continue", result |-> NoResult, evs |-> evs]
Return(res, evs) == [exit |-> "return", result |-> res, evs |-> evs]
Raise(evs) == [exit |-> "raise", result |-> NoResult, evs |-> evs]

\* one entry of events: a wait, a backoff sleep (index: the argument of backoff), a
\* page load (what: how it ended), a page opened, not opened or closed
Ev(e, k) == [e |-> e, attempt |-> k, index |-> 0, what |-> "none"]
Load(k, what) == [e |-> "load", attempt |-> k, index |-> 0, what |-> what]

\* the pages a driver returns in this model
LoadedPages == {FragPerson, FragAuthwall, FragHeading}

(***************************************************************************)
(* SeleniumFetcher.fetch: one pass through the loop body, from the page    *)
(* load on. o.load is what driver.get, the WebDriverWait and page_source   *)
(* do: "page" (o.html is page_source), "timeout" (TimeoutException),       *)
(* "webdriver" (another WebDriverException), "other" (another Exception).  *)
(***************************************************************************)
SeleniumOutcomes ==
    [load : {"page"}, html : LoadedPages]
        \cup [load : {"timeout", "webdriver", "other"}, html : {NoHtml}]

\* a pass that gives up on a timeout only after the last attempt
SeleniumAttemptLateGiveUp(k, max_retries, o) ==
    LET evs == <<Load(k, o.load)>>
    IN  CASE o.load = "page" ->
                IF IsBlocked(o.html)
                THEN IF k < max_retries THEN Continue(evs)
                     ELSE Return(BlockedResult(k), evs)
                ELSE Return(SuccessResult(o.html, k), evs)
          [] o.load = "timeout" ->
                IF k > max_retries THEN Return(TimeoutResult(k), evs)
                ELSE Continue(evs)
          [] o.load = "webdriver" ->
                IF k >= max_retries THEN Return(WebDriverErrorResult(k), evs)
                ELSE Continue(evs)
          [] o.load = "other" -> Return(UnexpectedErrorResult(k), evs)

SeleniumAttempt(k, max_retries, o) ==
    LET evs == <<Load(k, o.load)>>
    IN  CASE o.load = "page" ->
                IF IsBlocked(o.html)
                THEN IF k < max_retries THEN Continue(evs)
                     ELSE Return(BlockedResult(k), evs)
                ELSE Return(SuccessResult(o.html, k), evs)
          [] o.load = "timeout" ->
                IF k >= max_retries THEN Return(TimeoutResult(k), evs)
                ELSE Continue(evs)
          [] o.load = "webdriver" ->
                IF k >= max_retries THEN Return(WebDriverErrorResult(k), evs)
                ELSE Continue(evs)
          [] o.load = "other" -> Return(UnexpectedErrorResult(k), evs)

(***************************************************************************)
(* PlaywrightFetcher.fetch: one pass through the loop body, from new_page  *)
(* on. o.newpage is what context.new_page() does, o.load what page.goto    *)
(* and page.content() do, o.close what page.close() does inside the try    *)
(* block, o.hclose what page.close() does inside an except block.          *)
(***************************************************************************)
PlaywrightOutcomes ==
    [newpage : {"timeout", "error"}, load : {"none"}, html : {NoHtml},
     close : {"ok"}, hclose : {"ok"}]
        \cup [newpage : {"ok"}, load : {"timeout", "error"}, html : {NoHtml},
              close : {"ok"}, hclose : {"ok", "raise"}]
        \cup [newpage : {"ok"}, load : {"page"}, html : LoadedPages,
              close : {"ok", "timeout", "error"}, hclose : {"ok", "raise"}]

\* the except blocks: kind is "timeout" (PlaywrightTimeout) or "error" (Exception),
\* page_set tells whether the local variable page is set
PlaywrightExcept(k, max_retries, o, kind, page_set, evs) ==
    IF page_set /\ o.hclose = "raise"
    THEN Raise(evs \o <<Ev("close_failed", k)>>)
    ELSE LET evs2 == IF page_set THEN evs \o <<Ev("close", k)>> ELSE evs
         IN  IF k >= max_retries
             THEN Return(IF kind = "timeout" THEN TimeoutResult(k) ELSE ErrorResult(k), evs2)
             ELSE Continue(evs2)

PlaywrightAttempt(k, max_retries, o) ==
    LET opened == <<Ev("open", k)>>
        loaded == opened \o <<Load(k, o.load)>>
        \* page.close() inside the try block, then what follows it
        CloseThen(after) ==
            IF o.close = "ok" THEN after
            ELSE PlaywrightExcept(k, max_retries, o, o.close, TRUE,
                                  loaded \o <<Ev("close_failed", k)>>)
    IN  CASE o.newpage # "ok" ->
                PlaywrightExcept(k, max_retries, o, o.newpage, FALSE,
                                 <<Ev("open_failed", k)>>)
          [] o.newpage = "ok" /\ o.load # "page" ->
                PlaywrightExcept(k, max_retries, o, o.load, TRUE, loaded)
          [] o.newpage = "ok" /\ o.load = "page" ->
                IF IsBlocked(o.html)
                THEN IF k < max_retries
                     THEN CloseThen(Continue(loaded \o <<Ev("close", k)>>))
                     ELSE Return(BlockedResult(k), loaded)
                ELSE CloseThen(Return(SuccessResult(o.html, k),
                                      loaded \o <<Ev("close", k)>>))

(***************************************************************************)
(* The fetcher: fetch() calls, one after the other.                        *)
(***************************************************************************)
FetchCandidates ==
    [use_playwright       : BOOLEAN,
     max_retries          : -1..MaxRetries,
     request_delay        : {TicksPerSecond},
     retry_backoff_factor : {2},
     retry_jitter         : {JitterDen},
     max_retry_delay      : {3 * TicksPerSecond}]

Init ==
    /\ config \in {c \in FetchCandidates : ValidRateLimit(c)}
    /\ now = StartTime * TicksPerSecond
    /\ last_request_time = 0
    /\ rl_call = NoCall
    /\ Idle
    /\ html = NoHtml
    /\ verdict = NoVerdict

\* fetch(url) up to the loop: starts the driver when there is none. start is what
\* start() does: "ok", or "raise" (the driver or browser cannot be created)
FetchCall ==
    /\ pc # "loop"
    /\ calls < MaxCalls
    /\ \E start \in {"ok", "raise"} :
          /\ driver => start = "ok"
          /\ IF ~driver /\ start = "raise"
             THEN /\ pc' = "raised"
                  /\ driver' = FALSE
             ELSE /\ pc' = "loop"
                  /\ driver' = TRUE
    /\ retry' = 0
    /\ result' = NoResult
    /\ events' = <<>>
    /\ calls' = calls + 1
    /\ rl_call' = NoCall
    /\ html' = NoHtml
    /\ verdict' = NoVerdict
    /\ UNCHANGED <<config, now, last_request_time, loginVars, threads, sideVars>>

\* an opening wait whose backoff is computed from the retries already made
PreWaitStaleIndex(k, r) ==
    IF k = 0
    THEN [step |-> WaitStep, after |-> WaitStep.now,
          evs |-> <<Ev("wait", k)>>]
    ELSE [step |-> BackoffStep(k - 1, r),
          after |-> BackoffStep(k - 1, r).now + BackoffStep(k - 1, r).call.delay,
          evs |-> <<[e |-> "backoff", attempt |-> k,
                     index |-> BackoffStep(k - 1, r).call.retry_count, what |-> "none"]>>]

\* the wait that opens a pass through the loop body: rate_limiter.wait() on the
\* first, time.sleep(rate_limiter.backoff(retry)) on the others. after is the
\* clock when the wait is over
PreWait(k, r) ==
    IF k = 0
    THEN [step |-> WaitStep, after |-> WaitStep.now,
          evs |-> <<Ev("wait", k)>>]
    ELSE [step |-> BackoffStep(k, r),
          after |-> BackoffStep(k, r).now + BackoffStep(k, r).call.delay,
          evs |-> <<[e |-> "backoff", attempt |-> k,
                     index |-> BackoffStep(k, r).call.retry_count, what |-> "none"]>>]

\* one pass through the loop body, or the return after the loop; h is the end of
\* the pass, loaded the content classified (NoHtml: none)
LoopPass(r, h, loaded) ==
    /\ pc = "loop"
    /\ IF retry > config.max_retries
       THEN /\ pc' = "returned"
            /\ result' = MaxRetriesExceededResult(config.max_retries)
            /\ UNCHANGED <<now, last_request_time, rl_call, retry, events, html, verdict>>
       ELSE LET pre == PreWait(retry, r)
            IN  /\ now' = pre.after
                /\ last_request_time' = pre.step.last
                /\ rl_call' = pre.step.call
                /\ events' = events \o pre.evs \o h.evs
                /\ result' = h.result
                /\ pc' = CASE h.exit = "continue" -> "loop"
                           [] h.exit = "return"   -> "returned"
                           [] h.exit = "raise"    -> "raised"
                /\ retry' = IF h.exit = "continue" THEN retry + 1 ELSE retry
                /\ html' = loaded
                /\ verdict' = IF loaded = NoHtml THEN NoVerdict
                              ELSE [blocked |-> IF IsBlocked(loaded) THEN "Blocked" ELSE "Ok",
                                    person  |-> "unset"]
    /\ UNCHANGED <<config, driver, calls, loginVars, threads, sideVars>>

\* the values of random.random() the fetcher's runs draw: the two ends
Randoms == {0, RandDen - 1}

SeleniumPass ==
    /\ ~config.use_playwright
    /\ \E o \in SeleniumOutcomes, r \in Randoms :
          /\ retry = 0 => r = 0
          /\ LoopPass(r, SeleniumAttempt(retry, config.max_retries, o), o.html)

PlaywrightPass ==
    /\ config.use_playwright
    /\ \E o \in PlaywrightOutcomes, r \in Randoms :
          /\ retry = 0 => r = 0
          /\ LoopPass(r, PlaywrightAttempt(retry, config.max_retries, o), o.html)

\* time passes between two fetch() calls
Pause ==
    /\ pc \in {"returned", "raised"}
    /\ calls < MaxCalls
    /\ ClockRuns
    /\ now' = now + HalfSecond
    /\ UNCHANGED <<config, last_request_time, rl_call, driver, pc, retry, result,
                   events, calls, html, verdict, loginVars, threads, sideVars>>

Next == FetchCall \/ SeleniumPass \/ PlaywrightPass \/ Pause

Spec == Init /\ [][Next]_vars

(***************************************************************************)
(* What the state says of the current fetch() call.                        *)
(***************************************************************************)
Terminated == pc \in {"returned", "raised"}

\* the page loads of the call so far
Loads == Len(SelectSeq(events, LAMBDA ev : ev.e = "load"))

\* the index of the latest pass through the loop body (-1: none yet)
LatestPass == IF events = <<>> THEN -1 ELSE events[Len(events)].attempt

\* how the page load of the latest pass ended ("none": it loaded no page)
LatestLoad ==
    LET ls == SelectSeq(events, LAMBDA ev : ev.e = "load" /\ ev.attempt = LatestPass)
    IN  IF ls = <<>> THEN "none" ELSE ls[1].what

\* the latest pass loaded a page and _is_blocked said v of it
LatestPage(v) == LatestLoad = "page" /\ verdict.blocked = v

(***************************************************************************)
(* C1. fetch(url) returns a FetchResult whatever the driver does, a        *)
(* failure to start the driver or to close a page in an except block       *)
(* included: no exception escapes a fetch() call.                          *)
(***************************************************************************)
C1_FetchNeverRaises == pc # "raised"

(***************************************************************************)
(* C2. One fetch() call performs at most max_retries + 1 page loads (one   *)
(* at most when max_retries = 0), the loop variable never passes           *)
(* max_retries, and the call ends with a FetchResult.                      *)
(***************************************************************************)
C2_BoundedLoadsThenResult ==
    /\ Loads <= config.max_retries + 1
    /\ (config.max_retries = 0 => Loads <= 1)
    /\ (pc = "loop" => retry <= config.max_retries)
    /\ (Terminated => result.kind = "FetchResult")

\* the part of C2 that holds of the code: the bound on the page loads and on
\* the loop variable
C2_BoundedLoads ==
    /\ Loads <= config.max_retries + 1
    /\ (pc = "loop" => retry <= config.max_retries)

(***************************************************************************)
(* C3. A page classified Blocked on attempt k: with k < max_retries the    *)
(* call goes on to attempt k + 1; with k = max_retries it returns          *)
(* success = false, error_type = 'blocked', is_blocked = true.             *)
(***************************************************************************)
C3_BlockedRetriesOrReturnsBlocked ==
    LatestPage("Blocked") =>
        IF LatestPass < config.max_retries
        THEN pc = "loop" /\ retry = LatestPass + 1
        ELSE /\ pc = "returned"
             /\ result.kind = "FetchResult"
             /\ result.success = FALSE
             /\ result.error_type = "blocked"
             /\ result.is_blocked = TRUE

(***************************************************************************)
(* C4. A page load that times out on attempt k: with k = max_retries the   *)
(* call returns at once error_type = 'timeout' and retry_count = k, with   *)
(* no backoff wait after the load; with k < max_retries it goes on to      *)
(* attempt k + 1.                                                          *)
(***************************************************************************)
C4_TimeoutRetriesOrReturnsTimeout ==
    LatestLoad = "timeout" =>
        IF LatestPass < config.max_retries
        THEN pc = "loop" /\ retry = LatestPass + 1
        ELSE /\ pc = "returned"
             /\ result.kind = "FetchResult"
             /\ result.success = FALSE
             /\ result.error_type = "timeout"
             /\ result.retry_count = LatestPass
             /\ events[Len(events)].e # "backoff"
             /\ (config.max_retries = 0 => Loads = 1 /\ result.retry_count = 0)

(***************************************************************************)
(* C5. A page load that fails with anything but a timeout on attempt k is  *)
(* retried as a timeout is: the call returns no result before the last     *)
(* attempt, and the result of the last attempt has error_type = 'network'. *)
(* (An exception that escapes is C1's matter and is not counted here.)     *)
(***************************************************************************)
C5_OtherFailureRetriedLikeTimeout ==
    LatestLoad \in {"webdriver", "other", "error"} =>
        /\ (LatestPass < config.max_retries => pc # "returned")
        /\ (pc = "returned" =>
               result.kind = "FetchResult" /\ result.error_type = "network")

(***************************************************************************)
(* C6. A page classified Ok on attempt k ends the call at once: no further *)
(* pass through the loop, and the result has success = true, html the      *)
(* page, no error_type, is_blocked = false, retry_count = k. (An exception *)
(* that escapes is C1's matter and is not counted here.)                   *)
(***************************************************************************)
C6_OkPageReturnsSuccess ==
    LatestPage("Ok") =>
        /\ pc # "loop"
        /\ (pc = "returned" =>
               /\ result.kind = "FetchResult"
               /\ result.success = TRUE
               /\ result.html = html
               /\ result.error_type = "None"
               /\ result.is_blocked = FALSE
               /\ result.retry_count = LatestPass)

(***************************************************************************)
(* C7. Within one fetch() call the page load of attempt 0 comes after      *)
(* exactly one rate_limiter.wait() and no backoff sleep; the page load of  *)
(* a retry k >= 1 comes after exactly one backoff sleep of its own, made   *)
(* with backoff(k), and no rate_limiter.wait() of its own.                 *)
(***************************************************************************)
WaitsBefore(i, kind) ==
    {j \in 1..(i - 1) : events[j].e = kind /\ events[j].attempt = events[i].attempt}

C7_OneWaitBeforeEachLoad ==
    \A i \in 1..Len(events) :
        events[i].e = "load" =>
            IF events[i].attempt = 0
            THEN /\ Cardinality(WaitsBefore(i, "wait")) = 1
                 /\ \A j \in 1..(i - 1) : events[j].e # "backoff"
            ELSE /\ Cardinality(WaitsBefore(i, "backoff")) = 1
                 /\ \A j \in WaitsBefore(i, "backoff") :
                        events[j].index = events[i].attempt
                 /\ WaitsBefore(i, "wait") = {}
                 /\ Cardinality({j \in 1..(i - 1) : events[j].e = "wait"}) = 1

\* a second retry has loaded its page
C7_Witness ==
    \E i \in 1..Len(events) : events[i].e = "load" /\ events[i].attempt = 2

(***************************************************************************)
(* C8. _is_blocked says Ok of every page with a structured-data block the  *)
(* parser accepts as a Person, whatever block phrases the page holds; it   *)
(* says Blocked of a page with a block phrase (in any letter case) and no  *)
(* structured data; it says Ok of a page with neither.                     *)
(***************************************************************************)
HasBlockPhrase(h) ==
    \E i \in 1..Len(h), k \in 1..Len(blocked_indicators) :
        Lower(h[i]) = Lower(blocked_indicators[k])

HasStructuredData(h) == ScriptBodies(h) # <<>>

C8_ClassifierFollowsStructuredData ==
    verdict # NoVerdict =>
        /\ (verdict.person = "Person" => verdict.blocked = "Ok")
        /\ (HasBlockPhrase(html) /\ ~HasStructuredData(html) => verdict.blocked = "Blocked")
        /\ (~HasBlockPhrase(html) /\ ~HasStructuredData(html) => verdict.blocked = "Ok")

(***************************************************************************)
(* C9. For every valid configuration and every attemptIndex >= 1,          *)
(* backoff(attemptIndex) lies in [D * (1 - jitter), min(D * (1 + jitter),  *)
(* max_retry_delay)], D being request_delay * factor ^ attemptIndex.       *)
(* Stated on JitterDen times the delay, jitter being retry_jitter /        *)
(* JitterDen.                                                              *)
(***************************************************************************)
Undisturbed(c, k) == c.request_delay * Pow(c.retry_backoff_factor, k)

C9_BackoffInJitterInterval ==
    rl_call.op = "backoff" =>
        LET D == Undisturbed(config, rl_call.retry_count)
        IN  /\ rl_call.delay * JitterDen >= D * (JitterDen - config.retry_jitter)
            /\ rl_call.delay * JitterDen
                   <= Min(D * (JitterDen + config.retry_jitter),
                          config.max_retry_delay * JitterDen)

\* C9 as amended: the lower end of the interval is clamped to max_retry_delay too:
\* backoff(attemptIndex) lies in [min(D * (1 - jitter), max_retry_delay),
\* min(D * (1 + jitter), max_retry_delay)].
C9_BackoffInClampedInterval ==
    rl_call.op = "backoff" =>
        LET D == Undisturbed(config, rl_call.retry_count)
        IN  /\ rl_call.delay * JitterDen
                   >= Min(D * (JitterDen - config.retry_jitter),
                          config.max_retry_delay * JitterDen)
            /\ rl_call.delay * JitterDen
                   <= Min(D * (JitterDen + config.retry_jitter),
                          config.max_retry_delay * JitterDen)

\* a backoff whose whole jitter interval lies above max_retry_delay
C9_Witness ==
    /\ rl_call.op = "backoff"
    /\ Undisturbed(config, rl_call.retry_count) * (JitterDen - config.retry_jitter)
           > config.max_retry_delay * JitterDen
    /\ rl_call.delay = config.max_retry_delay

(***************************************************************************)
(* C10. rate_limiter.wait() sleeps max(0, request_delay - elapsed),        *)
(* elapsed being the time since the recorded last start: nothing when the  *)
(* last start is request_delay old or older, the whole request_delay when  *)
(* the call comes at the very time of the last start; and the start it     *)
(* records is the time at which its sleep ends.                            *)
(***************************************************************************)
C10_WaitSleepsTheRemainder ==
    rl_call.op = "wait" =>
        LET elapsed == rl_call.at - rl_call.last
        IN  /\ rl_call.slept = Max(0, config.request_delay - elapsed)
            /\ (elapsed >= config.request_delay => rl_call.slept = 0)
            /\ (elapsed = 0 => rl_call.slept = config.request_delay)
            /\ last_request_time = rl_call.at + rl_call.slept

\* a wait() at the very time of the last start, which slept the whole delay
C10_Witness ==
    /\ rl_call.op = "wait"
    /\ rl_call.at = rl_call.last
    /\ config.request_delay > 0
    /\ rl_call.slept = config.request_delay

(***************************************************************************)
(* C11.  Sequential fetches are spaced by the recorded start of the one    *)
(* before, and the timestamp is written only by the opening wait of a      *)
(* fetch.                                                                  *)
(***************************************************************************)
\* the step is the first pass of a fetch() call through the loop body
FirstPass == pc = "loop" /\ retry = 0 /\ events = <<>> /\ events' # events

\* the first pass starts at the clock the limiter records, request_delay or more
\* after the timestamp recorded before it
SpacedFromRecordedStart ==
    /\ last_request_time' = now'
    /\ now' - last_request_time >= config.request_delay

\* C11 as stated: in a sequential batch the attempt-0 page load of each fetch
\* starts at least request_delay after the recorded start of the previous fetch,
\* and every write of the last-request timestamp is directly followed by a driver
\* page load
C11_TimestampOnlyBeforePageLoad ==
    [][ /\ FirstPass => /\ SpacedFromRecordedStart
                        /\ events'[1].e = "wait"
                        /\ \E i \in 2..Len(events') : events'[i].e = "load"
        /\ last_request_time' # last_request_time => FirstPass ]_vars

\* C11 amended: the attempt-0 pass of each fetch starts at least request_delay
\* after the recorded start of the previous fetch, and the last-request timestamp
\* is written only by the wait that opens attempt 0, directly before the first
\* driver call of the attempt: the page load (Selenium), or new_page, which may
\* fail before any page is loaded (Playwright)
C11_TimestampOnlyBeforeFirstDriverCall ==
    [][ /\ FirstPass => /\ SpacedFromRecordedStart
                        /\ events'[1].e = "wait"
                        /\ Len(events') >= 2
                        /\ events'[2].e \in {"load", "open", "open_failed"}
                        /\ events'[2].e = "load" <=> ~config.use_playwright
        /\ last_request_time' # last_request_time => FirstPass ]_vars

\* the second fetch() of a batch had to sleep before its attempt-0 page load
C11_Witness ==
    /\ calls = 2
    /\ rl_call.op = "wait"
    /\ rl_call.slept > 0
    /\ Loads >= 1
    /\ LatestPass = 0

(***************************************************************************)
(* Threads that call fetch() on one fetcher at the same time: each runs    *)
(* RateLimiter.wait() statement by statement, then loads its page. The     *)
(* fetcher and its RateLimiter hold no lock.                               *)
(***************************************************************************)
InitThreads ==
    /\ \E s \in 0..MaxDelaySeconds :
          config = [ClassifyConfig EXCEPT !.request_delay = s * TicksPerSecond]
    /\ now = StartTime * TicksPerSecond
    /\ last_request_time = 0
    /\ rl_call = NoCall
    /\ Idle
    /\ html = NoHtml
    /\ verdict = NoVerdict

ThreadFrame ==
    UNCHANGED <<config, rl_call, driver, pc, retry, result, events, calls, html,
                verdict, loginVars, sideVars>>

\* elapsed = time.time() - self.last_request_time, and the test on it
ThreadRead(t) ==
    /\ threads[t].pc = "idle"
    /\ LET sleep_time == SleepTime(now - last_request_time, config.request_delay)
       IN  threads' = [threads EXCEPT
                          ![t].pc = IF sleep_time > 0 THEN "sleep" ELSE "record",
                          ![t].wake = now + sleep_time]
    /\ UNCHANGED <<now, last_request_time>>
    /\ ThreadFrame

\* time.sleep(sleep_time) is over: the clock is at the wake-up time or past it
ThreadSleep(t) ==
    /\ threads[t].pc = "sleep"
    /\ now' = Max(now, threads[t].wake)
    /\ threads' = [threads EXCEPT ![t].pc = "record"]
    /\ UNCHANGED last_request_time
    /\ ThreadFrame

\* self.last_request_time = time.time()
ThreadRecord(t) ==
    /\ threads[t].pc = "record"
    /\ last_request_time' = now
    /\ threads' = [threads EXCEPT ![t].pc = "load"]
    /\ UNCHANGED now
    /\ ThreadFrame

\* the attempt-0 page load starts
ThreadLoad(t) ==
    /\ threads[t].pc = "load"
    /\ threads' = [threads EXCEPT ![t].pc = "loaded", ![t].loaded_at = now]
    /\ UNCHANGED <<now, last_request_time>>
    /\ ThreadFrame

\* time passes
ThreadTick ==
    /\ ClockRuns
    /\ now' = now + HalfSecond
    /\ UNCHANGED <<last_request_time, threads>>
    /\ ThreadFrame

NextThreads ==
    \/ \E t \in Threads : ThreadRead(t)
    \/ \E t \in Threads : ThreadSleep(t)
    \/ \E t \in Threads : ThreadRecord(t)
    \/ \E t \in Threads : ThreadLoad(t)
    \/ ThreadTick

SpecThreads == InitThreads /\ [][NextThreads]_vars

(***************************************************************************)
(* C12.  Attempt-0 page loads of concurrent fetch() calls on one fetcher.  *)
(***************************************************************************)
\* C12: under every interleaving of two threads that call fetch() on the same
\* fetcher, the attempt-0 page loads start at least request_delay apart
C12_ConcurrentLoadsSpaced ==
    \A t1, t2 \in Threads :
        t1 # t2 /\ threads[t1].pc = "loaded" /\ threads[t2].pc = "loaded"
        /\ threads[t1].loaded_at <= threads[t2].loaded_at
        => threads[t2].loaded_at - threads[t1].loaded_at >= config.request_delay

(***************************************************************************)
(* C13.  What the two operations of the RateLimiter do besides computing.  *)
(***************************************************************************)
\* the step is a call of the RateLimiter operation op
LimiterCalled(op) == rl_call' # rl_call /\ rl_call'.op = op

JarOld == <<"li_at=old">>
JarNew == <<"li_at=new">>
CookieJars == {<<>>, JarOld, JarNew}

Session(cookies) == [kind |-> "cookies", cookies |-> cookies]
CorruptSession == [kind |-> "corrupt", cookies |-> <<>>]
Stores == {NoSession, CorruptSession} \cup {Session(c) : c \in CookieJars}

\* the Optional[list] load_cookies returns (some = FALSE: None)
NoCookies == [some |-> FALSE, cookies |-> <<>>, exc |-> "none"]
SomeCookies(c) == [some |-> TRUE, cookies |-> c, exc |-> "none"]

\* what a SessionManager operation hands back: the file after the call, the bool
\* returned, and the exception that leaves it ("none": it returns)
Done(st, ret) == [store |-> st, ret |-> ret, exc |-> "none"]

\* a save that reports success whatever the file system does
SaveCookiesSilent(st, cookies, io) ==
    CASE io = "ok"          -> Done(Session(cookies), TRUE)
      [] io = "open_error"  -> Done(st, TRUE)
      [] io = "write_error" -> Done(CorruptSession, TRUE)

\* a save that lets the errors of the file system through
SaveCookiesUncaught(st, cookies, io) ==
    CASE io = "ok"          -> Done(Session(cookies), TRUE)
      [] io = "open_error"  -> [store |-> st, ret |-> FALSE, exc |-> "OSError"]
      [] io = "write_error" -> [store |-> CorruptSession, ret |-> FALSE, exc |-> "OSError"]

\* save_cookies(cookies, email): the file after the call, and the bool returned.
\* open(file, 'w') empties the file before json.dump writes to it
SaveCookies(st, cookies, io) ==
    CASE io = "ok"          -> Done(Session(cookies), TRUE)
      [] io = "open_error"  -> Done(st, FALSE)
      [] io = "write_error" -> Done(CorruptSession, FALSE)

\* load_cookies(email)
LoadCookies(st, io) ==
    IF io = "ok" /\ st.kind = "cookies" THEN SomeCookies(st.cookies) ELSE NoCookies

\* a clear that leaves the file and reports success
ClearSessionNoop(st, io) == Done(st, TRUE)

\* clear_session(email): the file after the call, and the bool returned
ClearSession(st, io) ==
    IF st.kind = "absent" THEN Done(st, TRUE)
    ELSE IF io = "ok" THEN Done(NoSession, TRUE)
    ELSE Done(st, FALSE)

(***************************************************************************)
(* LoginResult and the results login() builds.                             *)
(***************************************************************************)
LoginResult(success, error, session_saved) ==
    [kind |-> "LoginResult", success |-> success, error |-> error,
     session_saved |-> session_saved]

\* a success that always reports a saved session
LoginSuccessSaved(session_saved) == LoginResult(TRUE, "None", TRUE)

LoginSuccess(session_saved) == LoginResult(TRUE, "None", session_saved)
LoginFailure(error) == LoginResult(FALSE, error, FALSE)

CredentialsRequired == "Email and password are required for authentication"
FormNotFound == "Login form not found - page may have changed"
LoginFailedText == "Login failed: error_text"
LoginFailedUnknown == "Login failed - invalid credentials or unknown error"
SecurityCheckpoint == "Security checkpoint - manual verification required"
VerificationFailed == "Login verification failed"
TimeoutDuringLogin == "Timeout during login"
ElementNotFound == "Login form element not found"
WebDriverError == "WebDriver error during login"
UnexpectedError == "Unexpected error during login"

\* what a helper of the handler hands back: a value (exc = "none") or an exception
Value(ret, trace) == [ret |-> ret, exc |-> "none", trace |-> trace]
Raised(exc, trace) == [ret |-> FALSE, exc |-> exc, trace |-> trace]

(***************************************************************************)
(* The helpers of the login handlers. pw tells the Playwright handler from *)
(* the Selenium one. An exception is one of "timeout" (TimeoutException,   *)
(* PlaywrightTimeout), "nosuch" (NoSuchElementException), "webdriver"      *)
(* (another WebDriverException), "other" (another Exception).              *)
(***************************************************************************)
Exceptions(pw) ==
    IF pw THEN {"timeout", "other"} ELSE {"timeout", "nosuch", "webdriver", "other"}

\* _load_session(): io is what reading the file does, nav what the navigation to
\* the home page does, add what adding the cookies to the driver does
LoadSession(st, pw, io, nav, add) ==
    LET cookies == LoadCookies(st, io)
    IN  IF ~cookies.some \/ cookies.cookies = <<>>
        THEN Value(FALSE, <<"load_cookies">>)
        ELSE IF nav # "ok"
        THEN Value(FALSE, <<"load_cookies", "get_home">>)
        ELSE IF pw /\ add # "ok"
        THEN Value(FALSE, <<"load_cookies", "get_home", "add_cookies">>)
        ELSE Value(TRUE, <<"load_cookies", "get_home", "add_cookies">>)

\* what the navigation to the feed and the look for the navigation bar do
VerifyOutcomes ==
    {"nav_error", "login_url", "authwall_url", "nav_found", "nav_timeout", "wait_error"}

\* a verification that lets the driver's exceptions through
VerifyLoginUncaught(v) ==
    IF v \in {"nav_error", "wait_error"}
    THEN Raised("other", <<"get_feed">>)
    ELSE Value(v = "nav_found",
               <<"get_feed", IF v = "nav_found" THEN "logged_in" ELSE "logged_out">>)

\* _verify_login(): the navigation to the feed, then what it returns
VerifyLogin(v) ==
    Value(v = "nav_found",
          <<"get_feed", IF v = "nav_found" THEN "logged_in" ELSE "logged_out">>)

(***************************************************************************)
(* login(use_saved_session) up to the call of _perform_login(). next is    *)
(* where the call is afterwards: "returned", "raised" (an exception left   *)
(* login), or "perform" (_perform_login() is called).                      *)
(***************************************************************************)
Flow(next, res, st, trace) ==
    [next |-> next, result |-> res, store |-> st, trace |-> trace]

\* a reuse that saves the cookies of the verified stored session again
ReuseSessionResaving(st, pw, io, nav, add, v, cio) ==
    LET ls == LoadSession(st, pw, io, nav, add)
        vl == VerifyLogin(v)
        cl == ClearSession(st, cio)
    IN  CASE ls.exc # "none" -> Flow("raised", NoLoginResult, st, ls.trace)
          [] ls.exc = "none" /\ ~ls.ret ->
                Flow("perform", NoLoginResult, st, ls.trace)
          [] ls.exc = "none" /\ ls.ret /\ vl.exc # "none" ->
                Flow("raised", NoLoginResult, st, ls.trace \o vl.trace)
          [] ls.exc = "none" /\ ls.ret /\ vl.exc = "none" /\ vl.ret ->
                Flow("returned", LoginSuccess(TRUE), SaveCookies(st, st.cookies, "ok").store,
                     ls.trace \o vl.trace \o <<"get_cookies", "save_cookies">>)
          [] ls.exc = "none" /\ ls.ret /\ vl.exc = "none" /\ ~vl.ret ->
                Flow("perform", NoLoginResult, cl.store,
                     ls.trace \o vl.trace
                        \o <<IF cl.ret THEN "clear_session" ELSE "clear_failed">>)

\* the saved session is tried: _load_session(), _verify_login(), clear_session()
ReuseSession(st, pw, io, nav, add, v, cio) ==
    LET ls == LoadSession(st, pw, io, nav, add)
        vl == VerifyLogin(v)
        cl == ClearSession(st, cio)
    IN  CASE ls.exc # "none" -> Flow("raised", NoLoginResult, st, ls.trace)
          [] ls.exc = "none" /\ ~ls.ret ->
                Flow("perform", NoLoginResult, st, ls.trace)
          [] ls.exc = "none" /\ ls.ret /\ vl.exc # "none" ->
                Flow("raised", NoLoginResult, st, ls.trace \o vl.trace)
          [] ls.exc = "none" /\ ls.ret /\ vl.exc = "none" /\ vl.ret ->
                Flow("returned", LoginSuccess(FALSE), st, ls.trace \o vl.trace)
          [] ls.exc = "none" /\ ls.ret /\ vl.exc = "none" /\ ~vl.ret ->
                Flow("perform", NoLoginResult, cl.store,
                     ls.trace \o vl.trace
                        \o <<IF cl.ret THEN "clear_session" ELSE "clear_failed">>)

\* a login that does not look at config.enabled
LoginFlowUnchecked(a, st, flag, pw, io, nav, add, v, cio) ==
    IF ~a.has_credentials
    THEN Flow("returned", LoginFailure(CredentialsRequired), st, <<>>)
    ELSE IF ~flag THEN Flow("perform", NoLoginResult, st, <<>>)
    ELSE ReuseSession(st, pw, io, nav, add, v, cio)

LoginFlow(a, st, flag, pw, io, nav, add, v, cio) ==
    IF ~a.enabled THEN Flow("returned", LoginSuccess(FALSE), st, <<>>)
    ELSE IF ~a.has_credentials
    THEN Flow("returned", LoginFailure(CredentialsRequired), st, <<>>)
    ELSE IF ~flag THEN Flow("perform", NoLoginResult, st, <<>>)
    ELSE ReuseSession(st, pw, io, nav, add, v, cio)

(***************************************************************************)
(* _perform_login(). An outcome o says what the driver and the file system *)
(* do: o.pre is how the steps up to the click on the submit button end     *)
(* ("submitted", "no_form": the wait for the form times out, or an         *)
(* exception), o.url the markers in current_url after the submission,      *)
(* o.url_exc the exception reading it raises, o.errtext what the look for  *)
(* the inline error marker does ("text", "absent", or an exception), o.v   *)
(* what the verification does, o.cookies the cookies of the driver,        *)
(* o.cookies_exc the exception reading them raises, o.sio what the file    *)
(* system does to the save.                                                *)
(***************************************************************************)
NoOutcome ==
    [pre |-> "submitted", url |-> {}, url_exc |-> "none", errtext |-> "absent",
     v |-> "nav_found", cookies |-> <<>>, cookies_exc |-> "none", sio |-> "ok"]

PerformOutcomes(pw) ==
    {[NoOutcome EXCEPT !.pre = x] : x \in {"no_form"} \cup Exceptions(pw)}
    \cup {[NoOutcome EXCEPT !.url_exc = x] : x \in IF pw THEN {} ELSE {"webdriver"}}
    \cup {[NoOutcome EXCEPT !.url = {"login"}, !.errtext = x] :
              x \in {"text", "absent"} \cup (Exceptions(pw) \ {"nosuch"})}
    \cup {[NoOutcome EXCEPT !.url = u] : u \in {{"checkpoint"}, {"login", "checkpoint"}}}
    \cup {[NoOutcome EXCEPT !.v = x] : x \in VerifyOutcomes \ {"nav_found"}}
    \cup {[NoOutcome EXCEPT !.cookies_exc = x] : x \in Exceptions(pw) \ {"nosuch"}}
    \cup {[NoOutcome EXCEPT !.cookies = c, !.sio = x] :
              c \in {<<>>, JarNew}, x \in {"ok", "open_error", "write_error"}}

\* how the try block ends: a LoginResult is returned, or an exception is raised
Returned(res, st, trace) == [exc |-> "none", result |-> res, store |-> st, trace |-> trace]
Thrown(exc, st, trace) == [exc |-> exc, result |-> NoLoginResult, store |-> st, trace |-> trace]

\* a classification that reads the login marker before the checkpoint marker
ClassifyLoginFirst(url) ==
    IF "login" \in url THEN "invalid"
    ELSE IF "checkpoint" \in url THEN "checkpoint"
    ELSE "verify"

\* the tests on current_url after the submission
ClassifyUrl(url) ==
    IF "login" \in url /\ "checkpoint" \notin url THEN "invalid"
    ELSE IF "checkpoint" \in url THEN "checkpoint"
    ELSE "verify"

\* what current_url shows after the submission, as an entry of the trace
UrlSeen(url) ==
    CASE url = {"login"}               -> "url_login"
      [] url = {"checkpoint"}          -> "url_checkpoint"
      [] url = {"login", "checkpoint"} -> "url_login_checkpoint"
      [] OTHER                         -> "url_other"

\* the try block of _perform_login()
PerformBody(st, pw, o) ==
    LET t0 == <<"get_login">>
        ts == t0 \o <<"submit">>
        t1 == ts \o <<UrlSeen(o.url)>>
        vl == VerifyLogin(o.v)
        t2 == t1 \o vl.trace
        t3 == t2 \o <<"get_cookies">>
        sv == SaveCookies(st, o.cookies, o.sio)
    IN  CASE o.pre = "no_form" -> Returned(LoginFailure(FormNotFound), st, t0)
          [] o.pre \in Exceptions(pw) -> Thrown(o.pre, st, t0)
          [] o.pre = "submitted" /\ o.url_exc # "none" -> Thrown(o.url_exc, st, ts)
          [] o.pre = "submitted" /\ o.url_exc = "none" ->
                CASE ClassifyUrl(o.url) = "invalid" ->
                        IF o.errtext = "text"
                        THEN Returned(LoginFailure(LoginFailedText), st, t1)
                        ELSE IF o.errtext = "absent" \/ pw
                        THEN Returned(LoginFailure(LoginFailedUnknown), st, t1)
                        ELSE Thrown(o.errtext, st, t1)
                  [] ClassifyUrl(o.url) = "checkpoint" ->
                        Returned(LoginFailure(SecurityCheckpoint), st, t1)
                  [] ClassifyUrl(o.url) = "verify" ->
                        IF vl.exc # "none" THEN Thrown(vl.exc, st, t2)
                        ELSE IF ~vl.ret
                        THEN Returned(LoginFailure(VerificationFailed), st, t2)
                        ELSE IF o.cookies_exc # "none"
                        THEN Thrown(o.cookies_exc, st, t3)
                        ELSE Returned(LoginSuccess(sv.ret), sv.store,
                                      t3 \o <<IF sv.ret THEN "save_cookies"
                                                ELSE "save_failed">>)

\* the except blocks of _perform_login(): the error of the LoginResult
Handlers(pw, exc) ==
    CASE exc = "timeout" -> TimeoutDuringLogin
      [] exc = "nosuch" /\ ~pw -> ElementNotFound
      [] exc = "webdriver" /\ ~pw -> WebDriverError
      [] OTHER -> UnexpectedError

PerformFlow(st, pw, o) ==
    LET b == PerformBody(st, pw, o)
    IN  IF b.exc = "none" THEN b
        ELSE Returned(LoginFailure(Handlers(pw, b.exc)), b.store, b.trace)

\* a login that performs the fresh login again when it failed
AfterPerformRetry(res) == IF res.success THEN "returned" ELSE "perform"

\* return self._perform_login(): whatever it returns ends the call
AfterPerform(res) == IF res.success THEN "returned" ELSE "returned"

(***************************************************************************)
(* The login handler: login() calls, one after the other, on one driver    *)
(* and one session directory.                                              *)
(***************************************************************************)
\* AuthConfig as login() finds it: its fields are assigned after construction
\* too (web_app.py), past the validation of __post_init__
AuthCandidates == [enabled : BOOLEAN, has_credentials : BOOLEAN]

InitLogin ==
    /\ \E pw \in BOOLEAN : config = [ClassifyConfig EXCEPT !.use_playwright = pw]
    /\ now = StartTime * TicksPerSecond
    /\ last_request_time = 0
    /\ rl_call = NoCall
    /\ FetchIdle
    /\ ThreadsIdle
    /\ SideIdle
    /\ html = NoHtml
    /\ verdict = NoVerdict
    /\ auth \in AuthCandidates
    /\ store \in Stores
    /\ lpc = "idle" /\ lresult = NoLoginResult /\ ltrace = <<>> /\ lcalls = 0
    /\ use_saved_session = FALSE
    /\ jar = <<>>

LoginFrame ==
    UNCHANGED <<config, now, last_request_time, rl_call, driver, pc, retry, result,
                events, calls, html, verdict, threads, auth, sideVars>>

\* login(use_saved_session) up to the call of _perform_login()
LoginCall ==
    /\ lpc \in {"idle", "returned", "raised"}
    /\ lcalls < MaxLogins
    /\ \E flag \in BOOLEAN, io \in {"ok", "error"}, nav \in {"ok", "error"},
          add \in {"ok", "error"}, v \in VerifyOutcomes, cio \in {"ok", "error"} :
          LET f == LoginFlow(auth, store, flag, config.use_playwright,
                             io, nav, add, v, cio)
          IN  /\ use_saved_session' = flag
              /\ lpc' = f.next
              /\ lresult' = f.result
              /\ store' = f.store
              /\ ltrace' = f.trace
              /\ jar' = IF Len(f.trace) >= 3 /\ add = "ok"
                        THEN store.cookies ELSE jar
    /\ lcalls' = lcalls + 1
    /\ LoginFrame

\* _perform_login(), and the return of what it returns
PerformLogin ==
    /\ lpc = "perform"
    /\ \E o \in PerformOutcomes(config.use_playwright) :
          LET f == PerformFlow(store, config.use_playwright, o)
          IN  /\ lpc' = AfterPerform(f.result)
              /\ lresult' = f.result
              /\ store' = f.store
              /\ ltrace' = ltrace \o f.trace
              /\ jar' = IF f.result.success THEN o.cookies ELSE jar
    /\ UNCHANGED <<lcalls, use_saved_session>>
    /\ LoginFrame

NextLogin == LoginCall \/ PerformLogin

SpecLogin == InitLogin /\ [][NextLogin]_vars

(***************************************************************************)
(* What the state says of the current login() call.                        *)
(***************************************************************************)
InTrace(x) == \E i \in 1..Len(ltrace) : ltrace[i] = x

\* how many times the call did x
Count(x) == Len(SelectSeq(ltrace, LAMBDA e : e = x))

\* the errors _perform_login() gives to an exception of the driver
DriverErrors == {TimeoutDuringLogin, ElementNotFound, WebDriverError, UnexpectedError}

(***************************************************************************)
(* C14.  login() returns a LoginResult, whatever the driver and the file   *)
(* system do.                                                              *)
(***************************************************************************)
\* C14: for every configuration, stored session, and outcome of the driver and of
\* the session file (exceptions included), login(use_saved_session) lets no
\* exception escape, and what it returns is a LoginResult
C14_LoginNeverRaises ==
    /\ lpc # "raised"
    /\ lpc = "returned" =>
          /\ lresult.kind = "LoginResult"
          /\ lresult.success \in BOOLEAN
          /\ lresult.session_saved \in BOOLEAN

\* the stored session failed verification, clearing it failed, and the driver
\* raised in the fresh login: login() returned a failure
C14_Witness ==
    /\ lpc = "returned"
    /\ InTrace("clear_failed")
    /\ InTrace("get_login")
    /\ lresult.error \in DriverErrors
    /\ ~lresult.success

(***************************************************************************)
(* C15.  A stored session that fails verification.                         *)
(***************************************************************************)
\* the call was made with use_saved_session, the stored session was loaded into
\* the driver, and its verification failed
StaleSession ==
    /\ use_saved_session
    /\ Len(ltrace) >= 6
    /\ ltrace[3] = "add_cookies" /\ ltrace[4] = "get_feed" /\ ltrace[5] = "logged_out"

\* the fresh login of the call ended at a checkpoint
AtCheckpoint ==
    lpc = "returned" /\ (InTrace("url_checkpoint") \/ InTrace("url_login_checkpoint"))

\* C15 as stated: when use_saved_session is true and the stored session is loaded
\* but fails verification, the stored session is cleared before the fresh login
\* starts; if that fresh login ends at a checkpoint the result is a failure whose
\* error mentions the checkpoint, and a subsequent load returns absent
C15_StaleSessionCleared ==
    StaleSession =>
        /\ ltrace[6] = "clear_session"
        /\ Len(ltrace) >= 7 => ltrace[7] = "get_login"
        /\ lpc = "perform" => store = NoSession
        /\ AtCheckpoint =>
              /\ ~lresult.success
              /\ lresult.error = SecurityCheckpoint
              /\ LoadCookies(store, "ok") = NoCookies

\* C15 amended: clear_session is called before the fresh login starts, and the
\* record is gone unless the clear fails on the file system (login ignores what
\* clear_session returns); if the fresh login ends at a checkpoint the result
\* is a failure whose error mentions the checkpoint, and a subsequent load
\* returns absent unless the clear had failed
C15_StaleSessionClearAttempted ==
    StaleSession =>
        /\ ltrace[6] \in {"clear_session", "clear_failed"}
        /\ Len(ltrace) >= 7 => ltrace[7] = "get_login"
        /\ lpc = "perform" /\ ltrace[6] = "clear_session" => store = NoSession
        /\ AtCheckpoint =>
              /\ ~lresult.success
              /\ lresult.error = SecurityCheckpoint
              /\ ltrace[6] = "clear_session" => LoadCookies(store, "ok") = NoCookies
              /\ ltrace[6] = "clear_failed" => LoadCookies(store, "ok") # NoCookies

\* a stale session was cleared and the fresh login ended at a checkpoint
C15_Witness ==
    /\ StaleSession
    /\ ltrace[6] = "clear_session"
    /\ AtCheckpoint
    /\ lresult.error = SecurityCheckpoint
    /\ store = NoSession

(***************************************************************************)
(* C16.  A stored session that passes verification.                        *)
(***************************************************************************)
\* the call was made with use_saved_session, the stored session was loaded into
\* the driver, and its verification passed
VerifiedSession ==
    /\ use_saved_session
    /\ Len(ltrace) >= 5
    /\ ltrace[3] = "add_cookies" /\ ltrace[4] = "get_feed" /\ ltrace[5] = "logged_in"

\* the step is a call of login()
LoginCalled == lcalls' = lcalls + 1

\* C16: when use_saved_session is true and the stored session verifies, login
\* returns success with session_saved=false, performs no fresh login and no
\* credential submission, and leaves the stored record unchanged
C16_VerifiedSessionReused ==
    [][ LoginCalled /\ VerifiedSession' =>
            /\ lpc' = "returned"
            /\ lresult' = LoginResult(TRUE, "None", FALSE)
            /\ Len(ltrace') = 5
            /\ ~InTrace("get_login")' /\ ~InTrace("submit")'
            /\ store' = store ]_vars

\* a stored session was reused: login() returned and the record is still there
C16_Witness ==
    /\ VerifiedSession
    /\ lpc = "returned"
    /\ lresult.success
    /\ store = Session(JarOld)
    /\ jar = JarOld

(***************************************************************************)
(* C17.  The classification read from the location after the submission.   *)
(***************************************************************************)
\* the step is _perform_login()
PerformStep == lpc = "perform" /\ lpc' # "perform"

InvalidCredentials == {LoginFailedText, LoginFailedUnknown}

\* the errors the exceptions other than NoSuchElementException are turned into
OtherDriverErrors == {TimeoutDuringLogin, WebDriverError, UnexpectedError}

\* the checkpoint failure whenever the location has the checkpoint marker, the
\* login marker or not; the error messages of the two outcomes differ; neither
\* outcome writes a session
CheckpointWins ==
    /\ InTrace("url_checkpoint")' \/ InTrace("url_login_checkpoint")' =>
          /\ lresult' = LoginFailure(SecurityCheckpoint)
          /\ store' = store
    /\ InTrace("url_login")' =>
          /\ ~lresult'.success /\ ~lresult'.session_saved
          /\ store' = store
    /\ SecurityCheckpoint \notin InvalidCredentials

\* C17 as stated: after the submission, a location still on the login surface
\* with no checkpoint marker gives an invalid-credentials failure, a checkpoint
\* marker gives the checkpoint failure even when the location also looks like
\* the login surface; the two have distinct errors and neither writes a session
C17_LocationClassifiesFailure ==
    [][ PerformStep =>
            /\ CheckpointWins
            /\ InTrace("url_login")' => lresult'.error \in InvalidCredentials ]_vars

\* C17 amended: as stated, except that in the Selenium handler an exception
\* other than NoSuchElementException raised while the inline error marker is
\* read gives the failure of that exception instead of the invalid-credentials
\* failure
C17_LocationClassifiesUnlessMarkerRaises ==
    [][ PerformStep =>
            /\ CheckpointWins
            /\ InTrace("url_login")' =>
                  \/ lresult'.error \in InvalidCredentials
                  \/ ~config.use_playwright /\ lresult'.error \in OtherDriverErrors
            /\ InTrace("url_login")' /\ config.use_playwright =>
                  lresult'.error \in InvalidCredentials ]_vars

\* the location had both markers and login() returned the checkpoint failure
C17_Witness ==
    /\ lpc = "returned"
    /\ InTrace("url_login_checkpoint")
    /\ lresult = LoginFailure(SecurityCheckpoint)

(***************************************************************************)
(* C18.  A fresh login whose location shows neither marker.                *)
(***************************************************************************)
\* the verification of the fresh login failed: the verification-failed error,
\* and nothing is saved
VerificationFails ==
    InTrace("url_other")' /\ ~InTrace("logged_in")' =>
        /\ lresult' = LoginFailure(VerificationFailed)
        /\ ~InTrace("get_cookies")'
        /\ store' = store

\* the cookies read from the driver are saved, and login returns success with
\* session_saved the result of the save
SavedAsReported ==
    /\ lresult'.success
    /\ lresult'.error = "None"
    /\ InTrace("save_cookies")' \/ InTrace("save_failed")'
    /\ lresult'.session_saved <=> InTrace("save_cookies")'
    /\ InTrace("save_cookies")' => store' = Session(jar')
    /\ InTrace("save_failed")' => store' \in {store, CorruptSession}

\* C18 as stated: when the fresh login reaches neither the invalid-credentials nor
\* the checkpoint outcome and the verification passes, the current cookie set is
\* saved and login returns success with session_saved the result of the save (a
\* failed save gives success=true, session_saved=false); when the verification
\* fails, login returns the verification-failed error and saves nothing
C18_VerifiedLoginSaves ==
    [][ PerformStep =>
            /\ VerificationFails
            /\ InTrace("url_other")' /\ InTrace("logged_in")' => SavedAsReported ]_vars

\* C18 amended: as stated, except that when reading the cookies from the driver
\* raises after a passed verification, login returns the failure of that
\* exception and saves nothing
C18_VerifiedLoginSavesUnlessCookiesRaise ==
    [][ PerformStep =>
            /\ VerificationFails
            /\ InTrace("url_other")' /\ InTrace("logged_in")' =>
                  IF ltrace'[Len(ltrace')] = "get_cookies"
                  THEN /\ ~lresult'.success /\ ~lresult'.session_saved
                       /\ lresult'.error \in OtherDriverErrors
                       /\ store' = store
                  ELSE SavedAsReported ]_vars

\* the verification passed and the save failed: success, and no saved session
C18_Witness ==
    /\ lpc = "returned"
    /\ InTrace("url_other") /\ InTrace("logged_in") /\ InTrace("save_failed")
    /\ lresult = LoginResult(TRUE, "None", FALSE)

(***************************************************************************)
(* C19.  One login() call is one attempt.                                  *)
(***************************************************************************)
\* C19: in each login call the credential form is submitted at most once, the
\* login page is opened at most once, and once a result is there, a failure
\* included, the call is over: no outcome leads to another submission
C19_SingleAttempt ==
    /\ Count("submit") <= 1
    /\ Count("get_login") <= 1
    /\ lresult # NoLoginResult => lpc = "returned"
    /\ lpc = "perform" => ~InTrace("get_login") /\ ~InTrace("submit")

\* the one submission of a call was classified as invalid credentials, and the
\* call is over
C19_Witness ==
    /\ lpc = "returned"
    /\ ~lresult.success
    /\ lresult.error = LoginFailedUnknown
    /\ Count("submit") = 1

(***************************************************************************)
(* C20.  login() with authentication disabled.                             *)
(***************************************************************************)
\* C20: with auth disabled, login returns success at once and does nothing: no
\* driver navigation, no submission, and no read, write or clear of the session
\* file
C20_DisabledLoginIsNoOp ==
    [][ LoginCalled /\ ~auth.enabled =>
            /\ lpc' = "returned"
            /\ lresult' = LoginResult(TRUE, "None", FALSE)
            /\ ltrace' = <<>>
            /\ store' = store
            /\ jar' = jar ]_vars

\* login() was called twice with auth disabled, credentials set and a session on
\* file: it returned success and the file is as it was
C20_Witness ==
    /\ ~auth.enabled /\ auth.has_credentials
    /\ lcalls = 2
    /\ lpc = "returned"
    /\ lresult.success
    /\ ltrace = <<>>
    /\ store = Session(JarOld)

(***************************************************************************)
(* SessionManager alone: save_cookies, load_cookies and clear_session, in  *)
(* any order, for two identities, with every outcome of the file system.   *)
(***************************************************************************)
InitStore ==
    /\ config = ClassifyConfig
    /\ now = StartTime * TicksPerSecond
    /\ last_request_time = 0
    /\ rl_call = NoCall
    /\ Idle
    /\ html = NoHtml
    /\ verdict = NoVerdict

StoreFrame == UNCHANGED <<coreVars, loginVars, threads, batchVars, parserVars, moreVars>>

\* one entry of slog: the operation, its arguments, what the file system did, the
\* file of the identity before and after, and what the operation handed back
StoreOp(op, email, cookies, io, before, after, ret, loaded, exc) ==
    [op |-> op, email |-> email, cookies |-> cookies, io |-> io, before |-> before,
     after |-> after, ret |-> ret, loaded |-> loaded, exc |-> exc]

StoreSave ==
    /\ Len(slog) < MaxStoreOps
    /\ \E e \in Emails, c \in CookieJars, io \in {"ok", "open_error", "write_error"} :
          LET r == SaveCookies(files[KeyFor(e)], c, io)
          IN  /\ files' = [files EXCEPT ![KeyFor(e)] = r.store]
              /\ slog' = Append(slog, StoreOp("save", e, c, io, files[KeyFor(e)],
                                              r.store, r.ret, NoCookies, r.exc))
    /\ StoreFrame

StoreLoad ==
    /\ Len(slog) < MaxStoreOps
    /\ \E e \in Emails, io \in {"ok", "error"} :
          LET r == LoadCookies(files[KeyFor(e)], io)
          IN  slog' = Append(slog, StoreOp("load", e, <<>>, io, files[KeyFor(e)],
                                          files[KeyFor(e)], r.some, r, r.exc))
    /\ UNCHANGED files
    /\ StoreFrame

StoreClear ==
    /\ Len(slog) < MaxStoreOps
    /\ \E e \in Emails, io \in {"ok", "error"} :
          LET r == ClearSession(files[KeyFor(e)], io)
          IN  /\ files' = [files EXCEPT ![KeyFor(e)] = r.store]
              /\ slog' = Append(slog, StoreOp("clear", e, <<>>, io, files[KeyFor(e)],
                                              r.store, r.ret, NoCookies, r.exc))
    /\ StoreFrame

NextStore == StoreSave \/ StoreLoad \/ StoreClear

SpecStore == InitStore /\ [][NextStore]_vars

\* ---- observers of the session store ----
StoreOps == 1..Len(slog)

\* what the operations before position j + 1 of the log leave for an identity:
\* the cookies of the last save that reported success, "cleared" after a clear that
\* reported success, "unknown" after a clear that reported failure, "never" when
\* nothing was saved or cleared
RECURSIVE Expected(_, _, _)
Expected(log, email, j) ==
    IF j = 0 THEN [kind |-> "never", cookies |-> <<>>]
    ELSE LET o == log[j]
         IN  IF o.email = email /\ o.op = "save" /\ o.ret
                 THEN [kind |-> "saved", cookies |-> o.cookies]
             ELSE IF o.email = email /\ o.op = "clear"
                 THEN [kind |-> IF o.ret THEN "cleared" ELSE "unknown", cookies |-> <<>>]
             ELSE Expected(log, email, j - 1)

\* a load the file system does not fail
SoundLoad(i) == slog[i].op = "load" /\ slog[i].io = "ok"

\* C21: every load the file system does not fail returns the cookies of the last
\* successful save of the identity when no clear came after it, and returns absent
\* when the identity was cleared last or was never saved
C21_LoadReturnsLastSave ==
    \A i \in StoreOps :
        SoundLoad(i) =>
            LET x == Expected(slog, slog[i].email, i - 1)
            IN  /\ x.kind = "saved" => slog[i].loaded = SomeCookies(x.cookies)
                /\ x.kind \in {"cleared", "never"} => slog[i].loaded = NoCookies

\* a clear the file system does not fail
SoundClear(i) == slog[i].op = "clear" /\ slog[i].io = "ok"

FailedOp(i) ==
    \/ slog[i].op = "save" /\ slog[i].io # "ok"
    \/ slog[i].op \in {"load", "clear"} /\ slog[i].io # "ok" /\ slog[i].before # NoSession

\* C23: no operation of the session store raises, and an operation the file
\* system fails reports it: save and clear return false, load returns absent
C23_StoreNeverRaises ==
    \A i \in StoreOps :
        /\ slog[i].exc = "none"
        /\ FailedOp(i) => ~slog[i].ret /\ slog[i].loaded = NoCookies

\* a save, a load and a clear have each been failed by the file system
C23_Witness ==
    \A op \in {"save", "load", "clear"} :
        \E i \in StoreOps : slog[i].op = op /\ FailedOp(i)

(***************************************************************************)
(* scrape(): one request to /scrape, from the JSON body to the response.   *)
(* The calls it makes (fetcher.start, login_selenium, fetcher.fetch,       *)
(* parser.parse_html, fetcher.stop) are taken by their outcomes.           *)
(***************************************************************************)
Urls == {"https://linkedin.com/in/a", "https://linkedin.com/in/b"}
Blank == "  "

\* the urls lists of a request: URLs and blank strings, repeats allowed
RECURSIVE Lists(_, _)
Lists(S, n) ==
    IF n = 0 THEN {<<>>}
    ELSE Lists(S, n - 1) \cup {Append(l, x) : l \in {m \in Lists(S, n - 1) : Len(m) = n - 1}, x \in S}

Requests == [urls : Lists(Urls \cup {Blank}, MaxUrls)]

\* [url.strip() for url in urls if url.strip()]
NotBlank(u) == u # Blank
CleanUrls(l) == SelectSeq(l, NotBlank)

\* config.auth after lines 65-73: disabled, or enabled with email and password
BatchAuths == {NoAuth, [enabled |-> TRUE, has_credentials |-> TRUE]}

InitBatch ==
    /\ \E pw \in BOOLEAN : config = [ClassifyConfig EXCEPT !.use_playwright = pw]
    /\ now = StartTime * TicksPerSecond
    /\ last_request_time = 0
    /\ rl_call = NoCall
    /\ FetchIdle
    /\ ThreadsIdle
    /\ html = NoHtml
    /\ verdict = NoVerdict
    /\ auth \in BatchAuths
    /\ store = NoSession /\ lpc = "idle"
    /\ lresult = NoLoginResult /\ ltrace = <<>> /\ lcalls = 0
    /\ use_saved_session = FALSE
    /\ jar = <<>>
    /\ StoreIdle
    /\ request \in Requests
    /\ urls = <<>> /\ bpc = "idle" /\ url_index = 0
    /\ fetch_result = [kind |-> "none"] /\ profiles = <<>> /\ errors = <<>>
    /\ response = NoResponse /\ btrace = <<>>
    /\ ParserIdle /\ MoreIdle

BatchFrame ==
    UNCHANGED <<coreVars, loginVars, threads, storeVars, request, parserVars, moreVars>>

BadRequest(message) == [status |-> 400, success |-> FALSE, error |-> message]
ServerError == [status |-> 500, success |-> FALSE, error |-> "str(e)"]
BatchResponse(ps, es, n) ==
    [status |-> 200, success |-> TRUE, profiles |-> ps, errors |-> es,
     total_urls |-> n, successful |-> Len(ps), failed |-> Len(es)]

BEv(e, i) == [e |-> e, i |-> i]

\* where scrape() goes once the driver is started: to the login when
\* config.auth.enabled, else to the loop
AfterStartAlways(a) == "login"
AfterStart(a) == IF a.enabled THEN "login" ELSE "loop"

\* lines 43-60: the body is read and the urls are cleaned
BatchRequest ==
    /\ bpc = "idle"
    /\ urls' = CleanUrls(request.urls)
    /\ IF request.urls = <<>>
           THEN bpc' = "done" /\ response' = BadRequest("No URLs provided")
       ELSE IF CleanUrls(request.urls) = <<>>
           THEN bpc' = "done" /\ response' = BadRequest("No valid URLs provided")
       ELSE bpc' = "start" /\ UNCHANGED response
    /\ UNCHANGED <<url_index, fetch_result, profiles, errors, btrace>>
    /\ BatchFrame

\* line 89: fetcher.start(); when it raises, the finally block stops a fetcher
\* that has no driver and the handler of line 148 answers
BatchStart ==
    /\ bpc = "start"
    /\ \E out \in {"ok", "raised"} :
          /\ btrace' = Append(btrace, BEv(IF out = "ok" THEN "start" ELSE "start_raised", 0))
          /\ IF out = "ok"
                 THEN bpc' = AfterStart(auth) /\ url_index' = 1 /\ UNCHANGED response
                 ELSE bpc' = "done" /\ response' = ServerError /\ UNCHANGED url_index
    /\ UNCHANGED <<urls, fetch_result, profiles, errors>>
    /\ BatchFrame

\* a batch that ends when the login did not succeed
AfterLoginAbort(out) == IF out = "login_success" THEN "loop" ELSE "done"

\* lines 98-104: whatever the login did is logged, and the loop follows
AfterLogin(out) == IF out = "login_success" THEN "loop" ELSE "loop"

\* lines 92-104: one call of login_selenium; its result is logged, an exception
\* is caught and logged
BatchLogin ==
    /\ bpc = "login"
    /\ \E out \in {"login_success", "login_failed", "login_raised"} :
          /\ btrace' = Append(btrace, BEv(out, 0))
          /\ bpc' = AfterLogin(out)
    /\ UNCHANGED <<urls, url_index, fetch_result, profiles, errors, response>>
    /\ BatchFrame

ErrorEntry(url, error, type) == [url |-> url, error |-> error, type |-> type]
ProfileEntry(url) == [url |-> url]

\* what fetcher.fetch(url) hands to scrape(): a FetchResult, or an exception
BatchFetchOutcomes ==
    {SuccessResult(<<"page">>, 0), TimeoutResult(0), BlockedResult(0), WebDriverErrorResult(0),
     [kind |-> "raised"]}

\* lines 106-119 and 128-134: fetch of the next URL
BatchFetch ==
    /\ bpc = "loop" /\ url_index <= Len(urls)
    /\ \E r \in BatchFetchOutcomes :
          /\ fetch_result' = r
          /\ btrace' = Append(btrace, BEv("fetch", url_index))
          /\ IF r.kind = "raised"
                 THEN /\ errors' = Append(errors, ErrorEntry(urls[url_index], "str(e)", "parse_error"))
                      /\ url_index' = url_index + 1
                      /\ UNCHANGED bpc
             ELSE IF ~r.success
                 THEN /\ errors' = Append(errors, ErrorEntry(urls[url_index], r.error, r.error_type))
                      /\ url_index' = url_index + 1
                      /\ UNCHANGED bpc
             ELSE /\ bpc' = "parse"
                  /\ UNCHANGED <<errors, url_index>>
    /\ UNCHANGED <<urls, profiles, response>>
    /\ BatchFrame

\* lines 121-134: parse of the page fetched, and the entry it gives
BatchParse ==
    /\ bpc = "parse"
    /\ btrace' = Append(btrace, BEv("parse", url_index))
    /\ \E out \in {"profile", "raised"} :
          IF out = "profile"
              THEN profiles' = Append(profiles, ProfileEntry(urls[url_index])) /\ UNCHANGED errors
              ELSE /\ errors' = Append(errors, ErrorEntry(urls[url_index], "str(e)", "parse_error"))
                   /\ UNCHANGED profiles
    /\ url_index' = url_index + 1
    /\ bpc' = "loop"
    /\ UNCHANGED <<urls, fetch_result, response>>
    /\ BatchFrame

\* lines 136-153: fetcher.stop() in the finally block, then the response
BatchStop ==
    /\ bpc = "loop" /\ url_index > Len(urls)
    /\ \E out \in {"ok", "raised"} :
          /\ btrace' = Append(btrace, BEv(IF out = "ok" THEN "stop" ELSE "stop_raised", 0))
          /\ response' = IF out = "ok" THEN BatchResponse(profiles, errors, Len(urls))
                                       ELSE ServerError
    /\ bpc' = "done"
    /\ UNCHANGED <<urls, url_index, fetch_result, profiles, errors>>
    /\ BatchFrame

NextBatch ==
    BatchRequest \/ BatchStart \/ BatchLogin \/ BatchFetch \/ BatchParse \/ BatchStop

SpecBatch == InitBatch /\ [][NextBatch]_vars

\* ---- observers of the batch ----
\* the positions of btrace that hold event e, and the URLs fetched, in order
BEvents(e) == SelectSeq(btrace, LAMBDA x : x.e = e)
Logins == SelectSeq(btrace, LAMBDA x : x.e \in {"login_success", "login_failed", "login_raised"})
Answered == bpc = "done" /\ urls # <<>>

\* C24: a batch that has been answered has processed every URL: the response
\* carries the profiles and the failures, and their numbers add up to the
\* number of URLs
C24_EveryUrlOneEntry ==
    Answered =>
        /\ response.status = 200
        /\ Len(response.profiles) + Len(response.errors) = Len(urls)

\* inside the loop every URL before the current one has left exactly one entry,
\* and the URLs were fetched once each, in input order
OneEntryPerUrlInLoop ==
    bpc \in {"loop", "parse"} =>
        /\ Len(profiles) + Len(errors) = url_index - 1
        /\ LET f == BEvents("fetch")
           IN  /\ Len(f) = IF bpc = "parse" THEN url_index ELSE url_index - 1
               /\ \A k \in 1..Len(f) : f[k].i = k

\* the position in btrace of the first event that satisfies P, 0 when there is none
FirstAt(P(_)) ==
    IF \E k \in 1..Len(btrace) : P(btrace[k])
    THEN CHOOSE k \in 1..Len(btrace) : P(btrace[k]) /\ \A j \in 1..(k - 1) : ~P(btrace[j])
    ELSE 0
IsLogin(x) == x.e \in {"login_success", "login_failed", "login_raised"}
IsFetch(x) == x.e = "fetch"

\* C25: in one batch there is at most one login, only with config.auth.enabled,
\* and it comes before the first fetch; the fetches come one URL after the other
\* in input order, and a parse comes only straight after the fetch of its own URL
C25_LoginOnceThenSequential ==
    /\ Len(Logins) <= 1
    /\ Len(Logins) = 1 => auth.enabled
    /\ (Len(Logins) = 1 /\ FirstAt(IsFetch) # 0) => FirstAt(IsLogin) < FirstAt(IsFetch)
    /\ (auth.enabled /\ FirstAt(IsFetch) # 0) => Len(Logins) = 1
    /\ \A k \in 1..Len(btrace) :
          /\ btrace[k].e = "parse" =>
                 k > 1 /\ btrace[k - 1].e = "fetch" /\ btrace[k - 1].i = btrace[k].i
          /\ (btrace[k].e = "fetch" /\ k > 1) =>
                 \/ btrace[k - 1].e \in {"start", "login_success", "login_failed", "login_raised"}
                       /\ btrace[k].i = 1
                 \/ btrace[k - 1].e \in {"fetch", "parse"}
                       /\ btrace[k].i = btrace[k - 1].i + 1
    /\ bpc = "parse" => btrace[Len(btrace)] = BEv("fetch", url_index)

\* a batch of two URLs with login: the login, then fetch and parse of the first
\* URL, then fetch and parse of the second
C25_Witness ==
    /\ auth.enabled
    /\ Len(Logins) = 1
    /\ Len(BEvents("fetch")) = 2
    /\ Len(BEvents("parse")) = 2
    /\ bpc = "done"

(***************************************************************************)
(* ProfileParser. A text is a sequence of tokens: words, the space and the *)
(* comma. A JSON number is the one-token JsonNumber.                        *)
(***************************************************************************)
Sp == " "
Comma == ","
JsonNumber == <<"5">>

\* str.strip()
RECURSIVE LStrip(_)
LStrip(t) == IF t # <<>> /\ Head(t) = Sp THEN LStrip(Tail(t)) ELSE t
RECURSIVE RStrip(_)
RStrip(t) == IF t # <<>> /\ t[Len(t)] = Sp THEN RStrip(SubSeq(t, 1, Len(t) - 1)) ELSE t
Strip(t) == LStrip(RStrip(t))

\* headline.split(',')[0]
RECURSIVE FirstSegment(_)
FirstSegment(t) ==
    IF t = <<>> \/ Head(t) = Comma THEN <<>> ELSE <<Head(t)>> \o FirstSegment(Tail(t))

\* ', '.join(l) for a list of strings
RECURSIVE Join(_)
Join(l) ==
    IF l = <<>> THEN <<>>
    ELSE IF Len(l) = 1 THEN l[1]
    ELSE l[1] \o <<Comma, Sp>> \o Join(Tail(l))

\* what a constructor or a mapping hands back: the value, or the exception
Built(v) == [kind |-> "value", value |-> v, exc |-> "none"]
Failed(exc) == [kind |-> "raised", value |-> <<>>, exc |-> exc]

\* Experience(...) with __post_init__: the text fields stripped, nothing checked
Experience(title, company, start_date, end_date, description) ==
    [title |-> Strip(title), company |-> Strip(company),
     start_date |-> Strip(start_date), end_date |-> Strip(end_date),
     description |-> Strip(description)]

\* ProfileData(...) with __post_init__: the text fields stripped, the name
\* required; a number has no strip()
ProfileData(name, headline, location, about, experiences, url) ==
    IF JsonNumber \in {name, headline, location, about} THEN Failed("AttributeError")
    ELSE IF Strip(name) = <<>> THEN Failed("ValueError")
    ELSE Built([name |-> Strip(name), headline |-> Strip(headline),
                location |-> Strip(location), about |-> Strip(about),
                experiences |-> experiences, url |-> url])

\* a JSON field that is absent, a string, a list, an object
NoField == [kind |-> "absent"]
Str(t) == [kind |-> "str", s |-> t]
List(l) == [kind |-> "list", items |-> l]
Address(locality, country) == [kind |-> "dict", locality |-> locality, country |-> country]

\* an entry of worksFor: an organization with its name and the member dates, or
\* a value that is no object
Work(name, start, end) == [kind |-> "dict", name |-> name, start |-> start, end |-> end]
NotAnObject == [kind |-> "str", name |-> <<>>, start |-> <<>>, end |-> <<>>]

\* a JSON-LD item
Person(name, jobTitle, address, description, worksFor) ==
    [type |-> "Person", name |-> name, jobTitle |-> jobTitle, address |-> address,
     description |-> description, worksFor |-> worksFor]
Organization ==
    [type |-> "Organization", name |-> <<"Acme Corp">>, jobTitle |-> NoField,
     address |-> NoField, description |-> <<>>, worksFor |-> NoField]
NoItem ==
    [type |-> "none", name |-> <<>>, jobTitle |-> NoField, address |-> NoField,
     description |-> <<>>, worksFor |-> NoField]

\* lines 172-177: the headline of a Person, or the exception of join
Headline(job_titles) ==
    IF job_titles.kind = "list"
    THEN IF \E k \in 1..Len(job_titles.items) : job_titles.items[k] = JsonNumber
         THEN Failed("TypeError")
         ELSE Built(Join(job_titles.items))
    ELSE IF job_titles.kind = "str" THEN Built(job_titles.s)
    ELSE Built(<<>>)

\* lines 179-190
Location(address) ==
    IF address.kind # "dict" THEN <<>>
    ELSE IF address.locality # <<>> /\ address.country # <<>>
        THEN address.locality \o <<Comma, Sp>> \o address.country
    ELSE IF address.locality # <<>> THEN address.locality
    ELSE address.country

\* lines 196-200: worksFor as a list
WorksList(works_for) ==
    IF works_for.kind = "list" THEN works_for.items
    ELSE IF works_for.kind = "dict" THEN <<works_for>>
    ELSE <<>>

\* a title that is the whole headline
TitleWhole(headline) == IF headline # <<>> THEN Strip(headline) ELSE <<"Position">>

\* line 223
TitleOf(headline) == IF headline # <<>> THEN Strip(FirstSegment(headline)) ELSE <<"Position">>

\* lines 202-233: one Experience for every entry that is an object with a name
RECURSIVE Experiences(_, _)
Experiences(works, headline) ==
    IF works = <<>> THEN <<>>
    ELSE LET work == Head(works)
         IN  IF work.kind # "dict" \/ work.name = <<>>
             THEN Experiences(Tail(works), headline)
             ELSE <<Experience(TitleOf(headline), work.name, work.start, work.end, <<>>)>>
                      \o Experiences(Tail(works), headline)

\* _parse_from_json_ld(json_data, url)
ParseFromJsonLd(json_data, url) ==
    IF json_data.name = <<>> THEN Failed("ValueError")
    ELSE LET headline == Headline(json_data.jobTitle)
         IN  IF headline.kind = "raised" THEN headline
             ELSE ProfileData(json_data.name, headline.value, Location(json_data.address),
                              json_data.description,
                              Experiences(WorksList(json_data.worksFor), headline.value), url)

\* a <script type="application/ld+json"> element as json.loads reads it: with no
\* string, not JSON, an array, an object with @graph, any other object
EmptyScript == [kind |-> "empty", item |-> NoItem, graph |-> <<>>]
BadJson == [kind |-> "error", item |-> NoItem, graph |-> <<>>]
ArrayOf(item) == [kind |-> "array", item |-> item, graph |-> <<>>]
Graph(items) == [kind |-> "graph", item |-> NoItem, graph |-> items]
Object(item) == [kind |-> "object", item |-> item, graph |-> <<>>]

\* the first Person of a @graph list
RECURSIVE FirstPerson(_)
FirstPerson(items) ==
    IF items = <<>> THEN NoItem
    ELSE IF Head(items).type = "Person" THEN Head(items)
    ELSE FirstPerson(Tail(items))

\* _extract_json_ld(soup): the Person item returned, NoItem for None
RECURSIVE ExtractPerson(_)
ExtractPerson(scripts) ==
    IF scripts = <<>> THEN NoItem
    ELSE LET script == Head(scripts)
             here == IF script.kind = "graph" THEN FirstPerson(script.graph)
                     ELSE IF script.kind = "object" /\ script.item.type = "Person"
                         THEN script.item
                     ELSE NoItem
         IN  IF here # NoItem THEN here ELSE ExtractPerson(Tail(scripts))

\* an element a selector list looks for: not there, there with its text, or the
\* lookup raises
NoElement == [kind |-> "none", text |-> <<>>]
Element(text) == [kind |-> "element", text |-> text]
Raises == [kind |-> "raises", text |-> <<>>]

\* an h1 element: its class, whether it is inside .profile-header, its text
H1(class, in_header, text) == [class |-> class, in_header |-> in_header, text |-> text]

\* the selectors of _extract_name, in order
name_selectors ==
    <<"h1.profile-name", "h1[class*=profile-name]", "h1[class*=name]", ".profile-header h1", "h1">>

Matches(h, selector) ==
    CASE selector = "h1.profile-name"         -> h.class = "profile-name"
      [] selector = "h1[class*=profile-name]" -> h.class \in {"profile-name", "profile-name-large"}
      [] selector = "h1[class*=name]"         -> h.class \in {"profile-name", "profile-name-large", "name"}
      [] selector = ".profile-header h1"      -> h.in_header
      [] selector = "h1"                      -> TRUE

\* soup.select_one(selector) on the h1 elements of the page, in document order
RECURSIVE SelectOne(_, _)
SelectOne(headings, selector) ==
    IF headings = <<>> THEN NoElement
    ELSE IF Matches(Head(headings), selector) THEN Element(Head(headings).text)
    ELSE SelectOne(Tail(headings), selector)

\* _extract_name(soup): the first selector whose element has text
RECURSIVE ExtractNameFrom(_, _)
ExtractNameFrom(headings, k) ==
    IF k > Len(name_selectors) THEN Failed("ValueError")
    ELSE LET element == SelectOne(headings, name_selectors[k])
         IN  IF element.kind = "element" /\ Strip(element.text) # <<>>
             THEN Built(Strip(element.text))
             ELSE ExtractNameFrom(headings, k + 1)

ExtractName(headings) == ExtractNameFrom(headings, 1)

\* _extract_headline, _extract_location, _extract_about inside their try blocks of
\* parse_html: the stripped text of the element, empty with no element or on an
\* exception
ExtractOptional(e) == IF e.kind = "element" THEN Strip(e.text) ELSE <<>>

\* an .experience-item element: its title, company and description elements
Item(title, company, description) ==
    [title |-> title, company |-> company, description |-> description]

\* an extraction that gives up at the first item it cannot read
RECURSIVE ExtractExperiencesUntilBad(_)
ExtractExperiencesUntilBad(items) ==
    IF items = <<>> THEN <<>>
    ELSE LET item == Head(items)
         IN  IF item.title.kind = "element" /\ item.company.kind = "element"
                  /\ item.description.kind # "raises"
             THEN <<Experience(Strip(item.title.text), Strip(item.company.text), <<>>, <<>>,
                               ExtractOptional(item.description))>>
                      \o ExtractExperiencesUntilBad(Tail(items))
             ELSE <<>>

\* _extract_experiences(soup) with _parse_experience_item(item)
RECURSIVE ExtractExperiences(_)
ExtractExperiences(items) ==
    IF items = <<>> THEN <<>>
    ELSE LET item == Head(items)
         IN  IF item.title.kind = "element" /\ item.company.kind = "element"
                  /\ item.description.kind # "raises"
             THEN <<Experience(Strip(item.title.text), Strip(item.company.text), <<>>, <<>>,
                               ExtractOptional(item.description))>>
                      \o ExtractExperiences(Tail(items))
             ELSE ExtractExperiences(Tail(items))

\* what parse_html hands back: the ProfileData with the tier that built it, or
\* the ValueError
Profile(p, tier) == [kind |-> "profile", profile |-> p, tier |-> tier, exc |-> "none"]
ParseError == [kind |-> "raised", profile |-> <<>>, tier |-> 0, exc |-> "ValueError"]

\* lines 293-341: the selector tier
ParseFromMarkup(d, url) ==
    LET name == ExtractName(d.headings)
    IN  IF name.kind = "raised" THEN ParseError
        ELSE LET experiences == IF d.items.kind = "raises" THEN <<>>
                                ELSE ExtractExperiences(d.items.items)
                 profile == ProfileData(name.value, ExtractOptional(d.headline),
                                        ExtractOptional(d.location), ExtractOptional(d.about),
                                        experiences, url)
             IN  IF profile.kind = "raised" THEN ParseError ELSE Profile(profile.value, 2)

\* a parse_html that reads the markup first and the structured data only when
\* the markup has no name
ParseHtmlMarkupFirst(d, url) ==
    IF d.kind \in {"empty", "text"} THEN ParseError
    ELSE IF ParseFromMarkup(d, url).kind = "profile" THEN ParseFromMarkup(d, url)
    ELSE LET json_ld_data == ExtractPerson(d.scripts)
             tier1 == ParseFromJsonLd(json_ld_data, url)
         IN  IF json_ld_data # NoItem /\ tier1.kind = "value" THEN Profile(tier1.value, 1)
             ELSE ParseError

\* parse_html(html, url): no content and content with no tag raise at once; a
\* Person item that _parse_from_json_ld maps gives the record; without one, and
\* when the mapping raises (line 289 catches it), the selectors are used
ParseHtml(d, url) ==
    IF d.kind \in {"empty", "text"} THEN ParseError
    ELSE LET json_ld_data == ExtractPerson(d.scripts)
             tier1 == ParseFromJsonLd(json_ld_data, url)
         IN  IF json_ld_data # NoItem /\ tier1.kind = "value" THEN Profile(tier1.value, 1)
             ELSE ParseFromMarkup(d, url)

(***************************************************************************)
(* The contents parse_html is applied to.                                  *)
(***************************************************************************)
Jane == <<"Jane Doe">>
John == <<"John Roe">>
Engineer == <<"Engineer">>
Acme == <<"Acme Corp">>
Url == <<"https://linkedin.com/in/a">>

PersonNames == {<<>>, <<Sp>>, Jane, <<Sp>> \o Jane \o <<Sp>>}
JobTitles ==
    {NoField, List(<<Engineer, <<"Lead">>>>), List(<<Engineer, JsonNumber>>),
     Str(<<"Engineer", Comma, Sp, "Acme Corp">>), Str(<<Sp>>), Str(Engineer)}
Addresses ==
    {NoField, Address(<<"Pune">>, <<"India">>), Address(<<"Pune">>, <<>>),
     Address(<<>>, <<"India">>)}
Descriptions == {<<>>, <<Sp, "Builds things", Sp>>}
WorkEntries ==
    {NotAnObject, Work(<<>>, <<>>, <<>>), Work(Acme, <<"2020">>, <<>>),
     Work(<<Sp, "Globex", Sp>>, <<>>, <<>>), Work(<<Sp>>, <<>>, <<>>)}
\* worksFor: absent, one object, a list of up to n entries
WorksFors(n) ==
    {List(l) : l \in Lists(WorkEntries, n)} \cup {NoField, Work(Acme, <<"2020">>, <<>>)}

\* the Person of scenario A, one with no name, one with a blank name, one whose
\* jobTitle list holds a number
JanePerson ==
    Person(Jane, Str(Engineer), Address(<<"Pune">>, <<"India">>), <<"Builds things">>,
           List(<<Work(Acme, <<"2020">>, <<>>)>>))
SomePersons ==
    {JanePerson, [JanePerson EXCEPT !.name = <<>>], [JanePerson EXCEPT !.name = <<Sp>>],
     [JanePerson EXCEPT !.jobTitle = List(<<Engineer, JsonNumber>>)]}

ScriptLists ==
    {<<>>, <<Object(Organization)>>, <<BadJson>>, <<EmptyScript>>, <<ArrayOf(JanePerson)>>}
        \cup {<<Object(p)>> : p \in SomePersons}
        \cup {<<Graph(<<Organization, p>>)>> : p \in SomePersons}
        \cup {<<BadJson, Object(p)>> : p \in SomePersons}

NameHeadings ==
    {<<>>,
     <<H1("", FALSE, John)>>,
     <<H1("", FALSE, <<Sp>>)>>,
     <<H1("profile-name", TRUE, <<>>), H1("", FALSE, <<Sp>> \o John)>>,
     <<H1("", FALSE, <<"Menu">>), H1("profile-name", FALSE, John)>>}

\* the headline, location and about elements of a page
OptionalFields ==
    {<<NoElement, NoElement, NoElement>>,
     <<Element(<<Sp, "Manager", Sp>>), Element(<<"Oslo">>), Element(<<"Sells things">>)>>,
     <<Raises, Raises, Raises>>,
     <<Raises, Element(<<"Oslo">>), NoElement>>}

ItemKinds ==
    {Item(Element(<<"Developer">>), Element(<<"Initech">>), NoElement),
     Item(NoElement, Element(<<"Initech">>), NoElement),
     Item(Element(<<"Developer">>), NoElement, NoElement),
     Item(Element(<<>>), Element(<<"Initech">>), NoElement),
     Item(Element(<<"Developer">>), Element(<<"Initech">>), Raises),
     Item(Raises, Element(<<"Hooli">>), NoElement),
     Item(Element(<<Sp, "Analyst">>), Element(<<"Hooli">>), Element(<<"Reports", Sp>>))}
\* the .experience-item elements of a page, up to n of them, or a lookup that raises
ItemLists(n) ==
    {[kind |-> "list", items |-> l] : l \in Lists(ItemKinds, n)}
        \cup {[kind |-> "raises", items |-> <<>>]}

Html(scripts, headings, optional, items) ==
    [kind |-> "html", scripts |-> scripts, headings |-> headings, headline |-> optional[1],
     location |-> optional[2], about |-> optional[3], items |-> items]
EmptyHtml == [Html(<<>>, <<>>, <<NoElement, NoElement, NoElement>>, [kind |-> "list", items |-> <<>>])
                 EXCEPT !.kind = "empty"]
TextOnly == [EmptyHtml EXCEPT !.kind = "text"]

\* markup that parses to a record of its own
JohnMarkup(scripts) ==
    Html(scripts, <<H1("", FALSE, John)>>,
         <<Element(<<Sp, "Manager", Sp>>), Element(<<"Oslo">>), Element(<<"Sells things">>)>>,
         [kind |-> "list",
          items |-> <<Item(Element(<<"Developer">>), Element(<<"Initech">>), NoElement)>>])

\* the contents: none, text with no tag, every Person item over markup that
\* parses to a record of its own, and every list of scripts with every markup
IsDoc(d) ==
    \/ d \in {EmptyHtml, TextOnly}
    \/ \E n \in PersonNames, j \in JobTitles, a \in Addresses, de \in Descriptions,
          w \in WorksFors(MaxWorks) :
          d = JohnMarkup(<<Object(Person(n, j, a, de, w))>>)
    \/ \E sc \in ScriptLists, h \in NameHeadings, o \in OptionalFields,
          i \in ItemLists(MaxItems) :
          d = Html(sc, h, o, i)

InitParse ==
    /\ config = ClassifyConfig
    /\ now = StartTime * TicksPerSecond
    /\ last_request_time = 0
    /\ rl_call = NoCall
    /\ FetchIdle /\ LoginIdle /\ ThreadsIdle /\ StoreIdle /\ BatchIdle
    /\ html = NoHtml
    /\ verdict = NoVerdict
    /\ IsDoc(doc)
    /\ parsed = NotParsed
    /\ MoreIdle

\* parse_html(html, url)
Parse ==
    /\ parsed = NotParsed
    /\ parsed' = ParseHtml(doc, Url)
    /\ UNCHANGED <<coreVars, loginVars, threads, storeVars, batchVars, doc, moreVars>>

NextParse == Parse

SpecParse == InitParse /\ [][NextParse]_vars

\* ---- observers of the parser ----
WasParsed == parsed # NotParsed
Found == IF doc.kind = "html" THEN ExtractPerson(doc.scripts) ELSE NoItem

\* a Person item with a name that is not blank and no number where text belongs
ValidPerson(p) ==
    /\ p.type = "Person"
    /\ Strip(p.name) # <<>>
    /\ p.jobTitle.kind = "list" => \A k \in 1..Len(p.jobTitle.items) : p.jobTitle.items[k] # JsonNumber

\* what the selectors alone make of the content
FromMarkup == ParseFromMarkup(doc, Url)

\* the organization names of the worksFor entries of a Person, stripped
Companies(p) ==
    {Strip(WorksList(p.worksFor)[k].name) : k \in 1..Len(WorksList(p.worksFor))}

\* C26: content with a valid Person item and markup the selectors can read gives
\* the record of the Person item: name, headline, location, about and every
\* experience come from the structured data, none from the markup
C26_StructuredDataPreferred ==
    (WasParsed /\ ValidPerson(Found) /\ FromMarkup.kind = "profile") =>
        /\ parsed.kind = "profile" /\ parsed.tier = 1
        /\ parsed.profile.name = Strip(Found.name)
        /\ parsed.profile.headline = Strip(Headline(Found.jobTitle).value)
        /\ parsed.profile.location = Strip(Location(Found.address))
        /\ parsed.profile.about = Strip(Found.description)
        /\ \A k \in 1..Len(parsed.profile.experiences) :
              /\ parsed.profile.experiences[k].company \in Companies(Found)
              /\ \A j \in 1..Len(FromMarkup.profile.experiences) :
                    parsed.profile.experiences[k] # FromMarkup.profile.experiences[j]
        /\ parsed.profile.name # FromMarkup.profile.name

\* both tiers have a name and an experience to offer, and they differ
C26_Witness ==
    /\ WasParsed /\ ValidPerson(Found) /\ FromMarkup.kind = "profile"
    /\ parsed.kind = "profile"
    /\ parsed.profile.experiences # <<>>
    /\ FromMarkup.profile.experiences # <<>>
    /\ FromMarkup.profile.headline # <<>>
    /\ parsed.profile.headline # FromMarkup.profile.headline

\* the record came from the selectors
UsedMarkup == WasParsed /\ parsed.kind = "profile" /\ parsed.tier = 2

\* C27 as stated: whenever a Person item is found in the content, the record
\* returned is not one the selectors produced
C27_PersonFoundNeverFallback ==
    (WasParsed /\ Found # NoItem /\ parsed.kind = "profile") => parsed.tier = 1

\* C27: the selectors produce the record only when no Person item is found or the
\* Person item found cannot be mapped (no name, a blank name, a number in the
\* jobTitle list); a Person item that can be mapped always gives the record
C27_FallbackOnlyWithoutMappablePerson ==
    /\ UsedMarkup => (Found = NoItem \/ ~ValidPerson(Found))
    /\ (WasParsed /\ ValidPerson(Found)) => (parsed.kind = "profile" /\ parsed.tier = 1)

\* a Person item with no name is found and the record comes from the selectors
C27_Witness == UsedMarkup /\ Found # NoItem /\ Found.name = <<>>

\* a name can be established: the Person item found has a name that is not
\* blank, or a name selector matches an element with text
NameInStructuredData == Found # NoItem /\ Strip(Found.name) # <<>>
NameInMarkup == doc.kind = "html" /\ ExtractName(doc.headings).kind = "value"

\* C28: parse_html raises exactly when neither tier can establish a name; with a
\* name, no failure of an optional field makes it raise, and content with a name
\* heading and no experience items gives a record with no experiences
C28_FailsExactlyWithoutName ==
    WasParsed =>
        /\ parsed.kind = "raised" <=> (~NameInStructuredData /\ ~NameInMarkup)
        /\ (Found = NoItem /\ NameInMarkup /\ doc.items.kind = "list" /\ doc.items.items = <<>>)
               => (parsed.kind = "profile" /\ parsed.profile.experiences = <<>>)

\* the same with the Person items left out whose optional field cannot be read
ParseFailsWithoutNameUnlessFieldFails ==
    (WasParsed /\ (Found # NoItem => (Strip(Found.name) = <<>> \/ ValidPerson(Found)))) =>
        /\ parsed.kind = "raised" <=> (~NameInStructuredData /\ ~NameInMarkup)
        /\ (Found = NoItem /\ NameInMarkup /\ doc.items.kind = "list" /\ doc.items.items = <<>>)
               => (parsed.kind = "profile" /\ parsed.profile.experiences = <<>>)

\* a text with something in it and no space at either end
Trimmed(t) == t # <<>> /\ Head(t) # Sp /\ t[Len(t)] # Sp

\* C29: every record parse_html returns has a name that is not empty and is
\* trimmed, and every Experience of it has a title and a company that are not
\* empty and are trimmed
C29_NameTitleCompanyNonEmpty ==
    (WasParsed /\ parsed.kind = "profile") =>
        /\ Trimmed(parsed.profile.name)
        /\ \A k \in 1..Len(parsed.profile.experiences) :
              /\ Trimmed(parsed.profile.experiences[k].title)
              /\ Trimmed(parsed.profile.experiences[k].company)

\* the part of it that holds: the name, and trimming
NameNonEmptyAllTrimmed ==
    (WasParsed /\ parsed.kind = "profile") =>
        /\ Trimmed(parsed.profile.name)
        /\ \A k \in 1..Len(parsed.profile.experiences) :
              \A t \in {parsed.profile.experiences[k].title, parsed.profile.experiences[k].company} :
                  t = <<>> \/ Trimmed(t)

\* the record came from the Person item
UsedStructuredData == WasParsed /\ parsed.kind = "profile" /\ parsed.tier = 1

\* the worksFor entries that are objects with a name, in the order of the array
Affiliations == SelectSeq(WorksList(Found.worksFor), LAMBDA w : w.kind = "dict" /\ w.name # <<>>)

\* the headline computed from jobTitle, and the text before its first comma
ComputedHeadline == Headline(Found.jobTitle).value
BeforeFirstComma(t) ==
    LET commas == {i \in 1..Len(t) : t[i] = Comma}
    IN  IF commas = {} THEN t
        ELSE SubSeq(t, 1, (CHOOSE i \in commas : \A j \in commas : i <= j) - 1)

ReadableItems ==
    SelectSeq(doc.items.items,
              LAMBDA it : /\ it.title.kind = "element" /\ it.company.kind = "element"
                          /\ it.description.kind # "raises")

\* C31: a record built by the selectors has one Experience for every item with a
\* title element and a company element whose parsing does not raise, in document
\* order, with the stripped texts of the item; the other items are skipped, and
\* no item makes the parse fail
C31_ItemsIndependent ==
    /\ UsedMarkup =>
          LET experiences == parsed.profile.experiences
          IN  /\ Len(experiences) = Len(ReadableItems)
              /\ \A k \in 1..Len(experiences) :
                    /\ experiences[k].title = Strip(ReadableItems[k].title.text)
                    /\ experiences[k].company = Strip(ReadableItems[k].company.text)
                    /\ experiences[k].description = Strip(ReadableItems[k].description.text)
    /\ (WasParsed /\ NameInMarkup /\ ~ValidPerson(Found)) => parsed.kind = "profile"

\* the first item cannot be read, the second can: the record has the second one
C31_Witness ==
    /\ UsedMarkup
    /\ doc.items.kind = "list" /\ Len(doc.items.items) = 2
    /\ doc.items.items[1].title.kind \in {"none", "raises"}
    /\ Len(parsed.profile.experiences) = 1
    /\ parsed.profile.experiences[1].company = <<"Hooli">>

(***************************************************************************)
(* C32. Spacing of the page loads of one fetcher. A pass starts its page   *)
(* load at the clock it ends its wait or its sleep at; page loads take no  *)
(* time here, so the passes of one call follow each other at once.         *)
(***************************************************************************)
\* the step is a pass of the loop body that loads a page
LoadingPass ==
    /\ pc = "loop"
    /\ Len(events') > Len(events)
    /\ \E i \in (Len(events) + 1)..Len(events') : events'[i].e = "load"

\* C32: any two consecutive page loads of one fetcher start at least request_delay
\* apart, retry loads included; here the pair of a retry load and the load of the
\* pass before it in the same fetch
C32_ConsecutiveLoadsSpaced ==
    [][ (LoadingPass /\ retry >= 1 /\ LatestLoad # "none")
            => now' - now >= config.request_delay ]_vars

(***************************************************************************)
(* C33. The FetchResult a fetch() call returns.                            *)
(***************************************************************************)
\* C33: every FetchResult fetch returns is consistent: success is true exactly when
\* html is present and error_type is absent, is_blocked is true exactly when
\* error_type is 'blocked', and retry_count is the 0-based index of the last
\* attempt performed, between 0 and max_retries
C33_ResultConsistent ==
    pc = "returned" =>
        /\ result.kind = "FetchResult"
        /\ result.success <=> (result.html # NoHtml /\ result.error_type = "None")
        /\ result.is_blocked <=> result.error_type = "blocked"
        /\ result.retry_count = LatestPass
        /\ 0 <= result.retry_count /\ result.retry_count <= config.max_retries

\* a call returned the blocked result of its last attempt, after two retries
C33_Witness ==
    /\ pc = "returned"
    /\ result.is_blocked
    /\ result.retry_count = 2
    /\ config.max_retries = 2

(***************************************************************************)
(* The two fetchers side by side: one SeleniumFetcher.fetch and one        *)
(* PlaywrightFetcher.fetch with the same max_retries, whose drivers show   *)
(* the same outcome in every attempt.                                      *)
(***************************************************************************)
\* what a driver shows in one attempt: an Ok page, a blocked page, a timeout, or
\* another failure; Selenium tells a WebDriverException from any other exception
AttemptOutcomes == {"ok", "blocked", "timeout", "webdriver", "other"}

SeleniumOutcomeOf(a) ==
    CASE a = "ok"      -> [load |-> "page", html |-> FragPerson]
      [] a = "blocked" -> [load |-> "page", html |-> FragAuthwall]
      [] OTHER         -> [load |-> a, html |-> NoHtml]

PlaywrightOutcomeOf(a) ==
    [newpage |-> "ok",
     load    |-> CASE a \in {"ok", "blocked"} -> "page"
                   [] a = "timeout" -> "timeout"
                   [] OTHER -> "error",
     html    |-> CASE a = "ok" -> FragPerson
                   [] a = "blocked" -> FragAuthwall
                   [] OTHER -> NoHtml,
     close   |-> "ok",
     hclose  |-> "ok"]

\* a fetch() call about to make its first pass
Started == [exit |-> "continue", result |-> NoResult, retry |-> 0, loads |-> 0]

\* the for loop of fetch(): run is the call so far, h the end of the pass it makes
\* now; after the last pass of range(max_retries + 1) the loop is left
Advance(run, max_retries, h) ==
    LET loads == run.loads + Len(SelectSeq(h.evs, LAMBDA ev : ev.e = "load"))
    IN  IF h.exit # "continue"
        THEN [exit |-> h.exit, result |-> h.result, retry |-> run.retry, loads |-> loads]
        ELSE IF run.retry + 1 > max_retries
             THEN [exit |-> "return", result |-> MaxRetriesExceededResult(max_retries),
                   retry |-> run.retry + 1, loads |-> loads]
             ELSE [exit |-> "continue", result |-> NoResult, retry |-> run.retry + 1,
                   loads |-> loads]

InitPair ==
    /\ config = ClassifyConfig
    /\ now = StartTime * TicksPerSecond
    /\ last_request_time = 0
    /\ rl_call = NoCall
    /\ FetchIdle /\ LoginIdle /\ ThreadsIdle /\ StoreIdle /\ BatchIdle /\ ParserIdle
    /\ html = NoHtml
    /\ verdict = NoVerdict
    /\ pair \in [kind : {"pair"}, max_retries : 0..MaxRetries, outcomes : {<<>>},
                 selenium : {Started}, playwright : {Started}]
    /\ life = NoLife

\* both drivers show outcome a in the next attempt; a fetcher that has returned
\* makes no attempt
PairAttempt ==
    /\ pair.kind = "pair"
    /\ pair.selenium.exit = "continue" \/ pair.playwright.exit = "continue"
    /\ \E a \in AttemptOutcomes :
          pair' = [pair EXCEPT
                     !.outcomes = Append(@, a),
                     !.selenium =
                        IF @.exit # "continue" THEN @
                        ELSE Advance(@, pair.max_retries,
                                     SeleniumAttempt(@.retry, pair.max_retries,
                                                     SeleniumOutcomeOf(a))),
                     !.playwright =
                        IF @.exit # "continue" THEN @
                        ELSE Advance(@, pair.max_retries,
                                     PlaywrightAttempt(@.retry, pair.max_retries,
                                                       PlaywrightOutcomeOf(a)))]
    /\ UNCHANGED <<coreVars, loginVars, threads, storeVars, batchVars, parserVars, life>>

NextPair == PairAttempt

SpecPair == InitPair /\ [][NextPair]_vars

BothReturned ==
    /\ pair.kind = "pair"
    /\ pair.selenium.exit = "return" /\ pair.playwright.exit = "return"

(***************************************************************************)
(* C34. The two fetchers as one retry state machine.                       *)
(***************************************************************************)
\* C34: with the same max_retries and the same driver outcome in every attempt the
\* Selenium and the Playwright fetcher load the same number of pages and return the
\* same success, error_type, is_blocked and retry_count
C34_SameRetryMachine ==
    BothReturned =>
        /\ pair.selenium.loads = pair.playwright.loads
        /\ pair.selenium.result.success = pair.playwright.result.success
        /\ pair.selenium.result.error_type = pair.playwright.result.error_type
        /\ pair.selenium.result.is_blocked = pair.playwright.result.is_blocked
        /\ pair.selenium.result.retry_count = pair.playwright.result.retry_count

(***************************************************************************)
(* C35. The return statement after the for loop of fetch().                *)
(***************************************************************************)
\* C35: for every max_retries >= 0 the fall-through return after the loop, whose
\* result says "Max retries exceeded", is never reached: every pass with the last
\* attempt index returns or raises, and no call returns that result
C35_FallThroughUnreachable ==
    config.max_retries >= 0 =>
        /\ pc = "loop" => retry <= config.max_retries
        /\ pc = "returned" => result.error # "Max retries exceeded"

\* a call whose every attempt timed out has returned from inside the loop
C35_Witness ==
    /\ pc = "returned"
    /\ config.max_retries = 2
    /\ Loads = 3
    /\ \A i \in 1..Len(events) : events[i].e = "load" => events[i].what = "timeout"
    /\ result = TimeoutResult(2)

(***************************************************************************)
(* C36. The pages PlaywrightFetcher.fetch opens.                           *)
(***************************************************************************)
\* the attempts of the call whose pass made event e
AttemptsWith(e) == {events[i].attempt : i \in {j \in 1..Len(events) : events[j].e = e}}

\* C36: every page opened for an attempt is closed before fetch returns or goes on
\* to the next attempt, on every path; no page stays open after fetch returns.
\* Stated for the attempts whose page.close() calls, if any, did not raise.
C36_EveryPageClosed ==
    \A k \in AttemptsWith("open") \ AttemptsWith("close_failed") :
        k \in AttemptsWith("close")

(***************************************************************************)
(* C37. Who writes the session record.                                     *)
(***************************************************************************)
\* the call called save_cookies
SaveCalled == InTrace("save_cookies") \/ InTrace("save_failed")

\* the call submitted the login form and the verification that followed passed
FreshLoginVerified ==
    \E i, j \in 1..Len(ltrace) : i < j /\ ltrace[i] = "submit" /\ ltrace[j] = "logged_in"

\* C37: a session record is written only by a login call whose fresh-login
\* verification passed: a login that returns success=false writes no session, and
\* a login that succeeds by reusing the stored session writes nothing
C37_SessionWrittenOnlyByVerifiedFreshLogin ==
    [][ /\ (SaveCalled' \/ (store' # store /\ store' # NoSession))
            => /\ FreshLoginVerified'
               /\ lpc' = "returned" /\ lresult'.success
        /\ (lpc' = "returned" /\ ~lresult'.success) => ~SaveCalled'
        /\ (lpc' = "returned" /\ lresult'.success /\ ~InTrace("submit")')
            => ~SaveCalled' /\ store' = store ]_vars

\* a login found the stored session stale, cleared it, logged in afresh and wrote
\* the new cookies
C37_Witness ==
    /\ lpc = "returned" /\ lresult.success /\ lresult.session_saved
    /\ InTrace("clear_session")
    /\ FreshLoginVerified
    /\ InTrace("save_cookies")
    /\ store = Session(JarNew)

(***************************************************************************)
(* C38. When login() deletes the session record.                           *)
(***************************************************************************)
\* the step is the part of a login() call before _perform_login()
LoginOpens == lcalls' = lcalls + 1

\* the call called clear_session
ClearCalled == InTrace("clear_session") \/ InTrace("clear_failed")

\* the step put the cookies of the record into the driver
CookiesIntoDriver == store.kind = "cookies" /\ jar' = store.cookies

\* C38: login clears the stored session only when use_saved_session is true, the
\* stored cookies were loaded into the driver and the verification then failed;
\* otherwise it does not delete the record, and a failed fresh login leaves the
\* record as it was
C38_ClearsOnlyLoadedStaleSession ==
    [][ /\ (LoginOpens /\ ClearCalled')
            => /\ use_saved_session'
               /\ CookiesIntoDriver
               /\ InTrace("logged_out")'
        /\ (LoginOpens /\ ~ClearCalled') => store' = store
        /\ (lpc = "perform" /\ lpc' = "returned" /\ ~lresult'.success)
            => store' = store ]_vars

(***************************************************************************)
(* C39. A batch whose login did not succeed.                               *)
(***************************************************************************)
\* the login of the batch returned a failure or raised
LoginDidNotSucceed ==
    \E k \in 1..Len(btrace) : btrace[k].e \in {"login_failed", "login_raised"}

\* C39: a login that fails or raises does not abort the batch: every URL is still
\* fetched, once and in input order, every page fetched is parsed, every URL
\* leaves its entry, and there is no second login attempt
C39_FailedLoginDoesNotAbort ==
    LoginDidNotSucceed =>
        /\ Len(Logins) = 1
        /\ bpc \in {"loop", "parse", "done"}
        /\ bpc = "done" =>
              /\ \E k \in 1..Len(btrace) : btrace[k].e \in {"stop", "stop_raised"}
              /\ Len(BEvents("fetch")) = Len(urls)
              /\ \A k \in 1..Len(urls) : BEvents("fetch")[k].i = k
              /\ Len(profiles) + Len(errors) = Len(urls)
              /\ Len(profiles) <= Len(BEvents("parse"))

\* the login raised, and both URLs of the batch were fetched and parsed into
\* profiles afterwards
C39_Witness ==
    /\ bpc = "done"
    /\ \E k \in 1..Len(btrace) : btrace[k].e = "login_raised"
    /\ Len(urls) = 2
    /\ Len(profiles) = 2
    /\ response.status = 200

(***************************************************************************)
(* The driver of one fetcher object over start(), fetch(), stop() and a    *)
(* batch run. browser is self.driver (Selenium) or self.browser            *)
(* (Playwright), playwright and context the other two handles of the       *)
(* Playwright fetcher, live the number of browsers created and not shut    *)
(* down. fail is the index of the first driver call of an operation that   *)
(* raises (0: none does).                                                  *)
(***************************************************************************)
MaxOps == 4

Fetcher(pw, playwright, browser, context, live) ==
    [pw |-> pw, playwright |-> playwright, browser |-> browser, context |-> context,
     live |-> live]

\* what an operation of the fetcher leaves: the fetcher, and whether it raised
Left(f, exc) == [f |-> f, exc |-> exc]

\* start()
StartDriver(f, fail) ==
    IF f.browser THEN Left(f, FALSE)
    ELSE IF ~f.pw
    THEN IF fail = 1 THEN Left(f, TRUE)
         ELSE Left([f EXCEPT !.browser = TRUE, !.live = @ + 1], FALSE)
    ELSE CASE fail = 1 -> Left(f, TRUE)
           [] fail = 2 -> Left([f EXCEPT !.playwright = TRUE], TRUE)
           [] fail = 3 -> Left([f EXCEPT !.playwright = TRUE, !.browser = TRUE,
                                         !.live = @ + 1], TRUE)
           [] OTHER    -> Left([f EXCEPT !.playwright = TRUE, !.browser = TRUE,
                                         !.context = TRUE, !.live = @ + 1], FALSE)

\* stop(); alive tells whether a browser whose quit() or close() raised still runs
StopDriver(f, fail, alive) ==
    LET gone == IF alive THEN f.live ELSE 0
    IN  IF ~f.pw
        THEN IF ~f.browser THEN Left(f, FALSE)
             ELSE IF fail = 1 THEN Left([f EXCEPT !.live = gone], TRUE)
             ELSE Left([f EXCEPT !.browser = FALSE, !.live = 0], FALSE)
        ELSE IF f.context /\ fail = 1 THEN Left(f, TRUE)
        ELSE IF f.browser /\ fail = 2
        THEN Left([f EXCEPT !.context = FALSE, !.live = gone], TRUE)
        ELSE IF f.playwright /\ fail = 3
        THEN Left([f EXCEPT !.context = FALSE, !.browser = FALSE, !.live = 0], TRUE)
        ELSE Left([f EXCEPT !.context = FALSE, !.browser = FALSE, !.playwright = FALSE,
                            !.live = 0], FALSE)

\* fetch(url): the driver is started when the fetcher holds none; raises tells
\* whether the call lets an exception out after that
FetchDriver(f, fail, raises) ==
    LET s == IF f.browser THEN Left(f, FALSE) ELSE StartDriver(f, fail)
    IN  Left(s.f, s.exc \/ raises)

\* fetch_multiple(urls) and scrape(): start() and the loop in a try block, stop()
\* in its finally block
BatchRun(f, start_fail, raises, stop_fail, alive) ==
    LET s == StartDriver(f, start_fail)
        t == StopDriver(s.f, stop_fail, alive)
    IN  Left(t.f, s.exc \/ raises \/ t.exc)

Fails(pw) == IF pw THEN 0..3 ELSE 0..1

InitLife ==
    /\ config = ClassifyConfig
    /\ now = StartTime * TicksPerSecond
    /\ last_request_time = 0
    /\ rl_call = NoCall
    /\ FetchIdle /\ LoginIdle /\ ThreadsIdle /\ StoreIdle /\ BatchIdle /\ ParserIdle
    /\ html = NoHtml
    /\ verdict = NoVerdict
    /\ pair = NoPair
    /\ \E pw \in BOOLEAN :
          life = [kind |-> "fetcher", f |-> Fetcher(pw, FALSE, FALSE, FALSE, 0),
                  ops |-> 0, op |-> "new", exc |-> FALSE]

LifeFrame ==
    UNCHANGED <<coreVars, loginVars, threads, storeVars, batchVars, parserVars, pair>>

\* the fetcher after an operation op that left l
After(op, l) ==
    [kind |-> "fetcher", f |-> l.f, ops |-> life.ops + 1, op |-> op, exc |-> l.exc]

LifeStart ==
    /\ life.kind = "fetcher" /\ life.ops < MaxOps
    /\ \E fail \in Fails(life.f.pw) :
          life' = After("start", StartDriver(life.f, fail))
    /\ LifeFrame

LifeFetch ==
    /\ life.kind = "fetcher" /\ life.ops < MaxOps
    /\ \E fail \in Fails(life.f.pw), raises \in BOOLEAN :
          life' = After("fetch", FetchDriver(life.f, fail, raises))
    /\ LifeFrame

LifeStop ==
    /\ life.kind = "fetcher" /\ life.ops < MaxOps
    /\ \E fail \in Fails(life.f.pw), alive \in BOOLEAN :
          life' = After("stop", StopDriver(life.f, fail, alive))
    /\ LifeFrame

LifeBatch ==
    /\ life.kind = "fetcher" /\ life.ops < MaxOps
    /\ \E start_fail \in Fails(life.f.pw), stop_fail \in Fails(life.f.pw),
          raises \in BOOLEAN, alive \in BOOLEAN :
          life' = After("batch", BatchRun(life.f, start_fail, raises, stop_fail, alive))
    /\ LifeFrame

NextLife == LifeStart \/ LifeFetch \/ LifeStop \/ LifeBatch

SpecLife == InitLife /\ [][NextLife]_vars

(***************************************************************************)
(* C40. At most one driver, and none after stop() or a batch run.          *)
(***************************************************************************)
\* C40: over any sequence of start, fetch and stop calls a fetcher holds at most one
\* live driver; stop releases it and leaves none; a batch run always stops the
\* driver when it ends, whether every URL was processed or an exception escaped
C40_OneDriverReleasedByStop ==
    life.kind = "fetcher" =>
        /\ life.f.live <= 1
        /\ life.op \in {"stop", "batch"} => ~life.f.browser /\ life.f.live = 0

====
